---------------------------- MODULE Spec2Model ----------------------------
(***************************************************************************)
(* Sudoku UDP-over-TCP framing (transport/sudoku/uot.go): the address      *)
(* codec, the datagram framer and the UoTPacketConn adapter.               *)
(*                                                                         *)
(* Go strings and byte slices are sequences of byte values 0..255; a       *)
(* character literal of the source is written as its ASCII code with the   *)
(* character in a comment.  An error is a string, "" meaning nil.          *)
(***************************************************************************)
EXTENDS Integers, Sequences, FiniteSets, TLC

(***************************************************************************)
(* Byte and string helpers.                                                *)
(***************************************************************************)
Byte == 0..255

\* s[from:] of Go with a 1-based first index
From(s, i) == SubSeq(s, i, Len(s))

\* bytealg.IndexByteString: 1-based index of the first c in s, 0 when absent
IndexByte(s, c) ==
    IF \E i \in 1..Len(s) : s[i] = c
    THEN CHOOSE i \in 1..Len(s) : s[i] = c /\ \A j \in 1..(i-1) : s[j] # c
    ELSE 0

\* bytealg.LastIndexByteString: 1-based index of the last c in s, 0 when absent
LastIndexByte(s, c) ==
    IF \E i \in 1..Len(s) : s[i] = c
    THEN CHOOSE i \in 1..Len(s) : s[i] = c /\ \A j \in (i+1)..Len(s) : s[j] # c
    ELSE 0

IsDigit(c) == c >= 48 /\ c <= 57                    \* '0'..'9'

\* value of a hexadecimal digit, -1 when c is none
HexVal(c) ==
    IF c >= 48 /\ c <= 57 THEN c - 48               \* '0'..'9'
    ELSE IF c >= 97 /\ c <= 102 THEN c - 97 + 10    \* 'a'..'f'
    ELSE IF c >= 65 /\ c <= 70 THEN c - 65 + 10     \* 'A'..'F'
    ELSE -1

\* strconv / fmt.Sprint of a non-negative integer: its decimal digits
RECURSIVE Itoa(_)
Itoa(n) == IF n < 10 THEN <<48 + n>> ELSE Itoa(n \div 10) \o <<48 + (n % 10)>>

\* binary.BigEndian.PutUint16 of uint16(n): the conversion keeps the low 16 bits
PutUint16(n) == << (n % 65536) \div 256, n % 256 >>

\* binary.BigEndian.Uint16
Uint16(b) == b[1] * 256 + b[2]

(***************************************************************************)
(* net.SplitHostPort, as called by encodeAddress and net.ResolveUDPAddr.   *)
(***************************************************************************)
SplitErr(e) == [err |-> e, host |-> <<>>, port |-> <<>>]

SplitHostPort(hostport) ==
    LET i == LastIndexByte(hostport, 58)            \* ':'
    IN  IF i = 0 THEN SplitErr("missing port in address")
        ELSE IF hostport[1] = 91                    \* '['
        THEN LET end == IndexByte(hostport, 93)     \* ']'
             IN  IF end = 0 THEN SplitErr("missing ']' in address")
                 ELSE IF end = Len(hostport) THEN SplitErr("missing port in address")
                 ELSE IF end + 1 # i
                 THEN IF hostport[end + 1] = 58
                      THEN SplitErr("too many colons in address")
                      ELSE SplitErr("missing port in address")
                 ELSE IF IndexByte(From(hostport, 2), 91) > 0
                 THEN SplitErr("unexpected '[' in address")
                 ELSE IF IndexByte(From(hostport, end + 1), 93) > 0
                 THEN SplitErr("unexpected ']' in address")
                 ELSE [err |-> "", host |-> SubSeq(hostport, 2, end - 1),
                       port |-> From(hostport, i + 1)]
        ELSE IF IndexByte(SubSeq(hostport, 1, i - 1), 58) > 0
        THEN SplitErr("too many colons in address")
        ELSE IF IndexByte(hostport, 91) > 0
        THEN SplitErr("unexpected '[' in address")
        ELSE IF IndexByte(hostport, 93) > 0
        THEN SplitErr("unexpected ']' in address")
        ELSE [err |-> "", host |-> SubSeq(hostport, 1, i - 1),
              port |-> From(hostport, i + 1)]

\* net.JoinHostPort: the host is bracketed when it holds a ':'
JoinHostPort(host, port) ==
    IF IndexByte(host, 58) > 0
    THEN <<91>> \o host \o <<93, 58>> \o port
    ELSE host \o <<58>> \o port

(***************************************************************************)
(* net.LookupPort("udp", service), as called by encodeAddress and by       *)
(* net.ResolveUDPAddr.  Port texts of the model have at most 9 digits, so  *)
(* the uint32 arithmetic of net.parsePort never wraps.                     *)
(***************************************************************************)
RECURSIVE ParsePortDigits(_, _, _)
\* the digits of service from position i on, n so far; -1 when a character is
\* no digit (the service needs a lookup)
ParsePortDigits(service, i, n) ==
    IF i > Len(service) THEN n
    ELSE IF ~IsDigit(service[i]) THEN -1
    ELSE ParsePortDigits(service, i + 1, n * 10 + (service[i] - 48))

\* net.lowerASCIIBytes: 'A'..'Z' become 'a'..'z'
LowerASCII(x) == [i \in 1..Len(x) |-> IF x[i] >= 65 /\ x[i] <= 90 THEN x[i] + 32 ELSE x[i]]

\* net.lookupPortMap looks up the first maxPortBufSize bytes of the name, in
\* lower case, and takes the entry when the name was no longer than that
maxPortBufSize == 25

\* the services database for udp: "domain" is 53, "ntp" is 123
ServicePort(service) ==
    IF Len(service) > maxPortBufSize THEN -1
    ELSE IF LowerASCII(service) = <<100, 111, 109, 97, 105, 110>> THEN 53   \* "domain"
    ELSE IF LowerASCII(service) = <<110, 116, 112>> THEN 123               \* "ntp"
    ELSE -1

\* [err, port]
LookupPort(service) ==
    LET neg    == Len(service) > 0 /\ service[1] = 45           \* '-'
        signed == Len(service) > 0 /\ (service[1] = 43 \/ service[1] = 45)
        digits == IF signed THEN Tail(service) ELSE service
        n      == IF Len(service) = 0 THEN 0 ELSE ParsePortDigits(digits, 1, 0)
        port   == IF n = -1 THEN ServicePort(service)
                  ELSE IF neg THEN 0 - n ELSE n
    IN  IF n = -1 /\ port = -1 THEN [err |-> "unknown port", port |-> 0]
        ELSE IF port < 0 \/ port > 65535 THEN [err |-> "invalid port", port |-> 0]
        ELSE [err |-> "", port |-> port]

(***************************************************************************)
(* netip.ParseAddr, behind net.ParseIP and net.ResolveUDPAddr.             *)
(***************************************************************************)
RECURSIVE ParseIPv4Fields(_, _, _, _, _)
\* the four octets of the dotted text s, <<>> when s is no IPv4 address
ParseIPv4Fields(s, i, val, digLen, fields) ==
    IF i > Len(s)
    THEN IF Len(fields) < 3 THEN <<>> ELSE Append(fields, val)
    ELSE IF IsDigit(s[i])
    THEN IF digLen = 1 /\ val = 0 THEN <<>>                     \* leading zero
         ELSE LET v == val * 10 + (s[i] - 48)
              IN  IF v > 255 THEN <<>>
                  ELSE ParseIPv4Fields(s, i + 1, v, digLen + 1, fields)
    ELSE IF s[i] = 46                                           \* '.'
    THEN IF i = 1 \/ i = Len(s) \/ s[i - 1] = 46 THEN <<>>
         ELSE IF Len(fields) = 3 THEN <<>>
         ELSE ParseIPv4Fields(s, i + 1, 0, 0, Append(fields, val))
    ELSE <<>>

\* number of leading hexadecimal digits of s
RECURSIVE HexRun(_, _)
HexRun(s, off) ==
    IF off < Len(s) /\ HexVal(s[off + 1]) >= 0 THEN HexRun(s, off + 1) ELSE off

RECURSIVE HexAcc(_, _, _)
HexAcc(s, off, acc) ==
    IF off = 0 THEN acc ELSE HexAcc(Tail(s), off - 1, acc * 16 + HexVal(s[1]))

Zeros(n) == [k \in 1..n |-> 0]

\* the end of parseIPv6: the text is used up, the "::" expands to zeros
ParseIPv6Finish(s, ip, ellipsis) ==
    IF Len(s) # 0 THEN <<>>
    ELSE IF Len(ip) < 16
    THEN IF ellipsis < 0 THEN <<>>
         ELSE SubSeq(ip, 1, ellipsis) \o Zeros(16 - Len(ip)) \o From(ip, ellipsis + 1)
    ELSE IF ellipsis >= 0 THEN <<>>
    ELSE ip

RECURSIVE ParseIPv6Groups(_, _, _)
\* the loop of parseIPv6: s the text left, ip the bytes so far, ellipsis the
\* byte offset of "::" or -1; the 16 bytes, <<>> when s is no IPv6 address
ParseIPv6Groups(s, ip, ellipsis) ==
    IF Len(ip) >= 16 THEN ParseIPv6Finish(s, ip, ellipsis)
    ELSE LET off == HexRun(s, 0)
             acc == HexAcc(s, off, 0)
         IN  IF off > 4 \/ off = 0 THEN <<>>
             ELSE IF off < Len(s) /\ s[off + 1] = 46            \* '.'
             THEN IF (ellipsis < 0 /\ Len(ip) # 12) \/ Len(ip) + 4 > 16 THEN <<>>
                  ELSE LET v4 == ParseIPv4Fields(s, 1, 0, 0, <<>>)
                       IN  IF v4 = <<>> THEN <<>>
                           ELSE ParseIPv6Finish(<<>>, ip \o v4, ellipsis)
             ELSE LET ip2 == ip \o <<acc \div 256, acc % 256>>
                      s2  == From(s, off + 1)
                  IN  IF Len(s2) = 0 THEN ParseIPv6Finish(s2, ip2, ellipsis)
                      ELSE IF s2[1] # 58 \/ Len(s2) = 1 THEN <<>>     \* ':'
                      ELSE IF s2[2] = 58
                      THEN IF ellipsis >= 0 THEN <<>>
                           ELSE IF Len(s2) = 2
                           THEN ParseIPv6Finish(<<>>, ip2, Len(ip2))
                           ELSE ParseIPv6Groups(From(s2, 3), ip2, Len(ip2))
                      ELSE ParseIPv6Groups(Tail(s2), ip2, ellipsis)

AddrErr == [ok |-> FALSE, ip |-> <<>>, zone |-> <<>>]

ParseIPv6(in) ==
    LET pct  == IndexByte(in, 37)                               \* '%'
        s    == IF pct > 0 THEN SubSeq(in, 1, pct - 1) ELSE in
        zone == IF pct > 0 THEN From(in, pct + 1) ELSE <<>>
        lead == Len(s) >= 2 /\ s[1] = 58 /\ s[2] = 58           \* "::"
        ip   == IF lead /\ Len(s) = 2 THEN Zeros(16)
                ELSE IF lead THEN ParseIPv6Groups(From(s, 3), <<>>, 0)
                ELSE ParseIPv6Groups(s, <<>>, -1)
    IN  IF pct > 0 /\ zone = <<>> THEN AddrErr
        ELSE IF ip = <<>> THEN AddrErr
        ELSE [ok |-> TRUE, ip |-> ip, zone |-> zone]

\* the 16-byte form of an IPv4 address (Addr.As16, IP.To16)
V4InV6(v4) == Zeros(10) \o <<255, 255>> \o v4

\* [ok, ip, zone]: ip is the 4 bytes of an IPv4 address or the 16 of an IPv6 one
ParseAddr(s) ==
    LET marks == {i \in 1..Len(s) : s[i] \in {46, 58, 37}}      \* '.' ':' '%'
        first == CHOOSE i \in marks : \A j \in marks : i <= j
    IN  IF marks = {} THEN AddrErr
        ELSE IF s[first] = 46
        THEN LET v4 == ParseIPv4Fields(s, 1, 0, 0, <<>>)
             IN  IF v4 = <<>> THEN AddrErr
                 ELSE [ok |-> TRUE, ip |-> v4, zone |-> <<>>]
        ELSE IF s[first] = 58 THEN ParseIPv6(s)
        ELSE AddrErr

\* net.ParseIP: the 16-byte form, <<>> (nil) for no address or one with a zone
ParseIP(s) ==
    LET To16(a) == IF ~a.ok \/ a.zone # <<>> THEN <<>>
                   ELSE IF Len(a.ip) = 4 THEN V4InV6(a.ip) ELSE a.ip
    IN  To16(ParseAddr(s))

\* IP.To4: the 4-byte form of an IPv4 or IPv4-mapped address, <<>> (nil) otherwise
To4(ip) ==
    IF Len(ip) = 4 THEN ip
    ELSE IF Len(ip) = 16 /\ SubSeq(ip, 1, 10) = Zeros(10)
            /\ ip[11] = 255 /\ ip[12] = 255
    THEN SubSeq(ip, 13, 16)
    ELSE <<>>

(***************************************************************************)
(* IP.String, as called by decodeAddress.                                  *)
(***************************************************************************)
HexDigit(d) == IF d < 10 THEN 48 + d ELSE 97 + (d - 10)

\* lower-case hexadecimal without leading zeros
RECURSIVE AppendHex(_)
AppendHex(n) == IF n < 16 THEN <<HexDigit(n)>>
                ELSE AppendHex(n \div 16) \o <<HexDigit(n % 16)>>

\* the i-th 16-bit group of a 16-byte address, i in 0..7
V6u16(ip, i) == ip[2 * i + 1] * 256 + ip[2 * i + 2]

\* end (exclusive) of the run of zero groups that starts at group i
RECURSIVE ZeroRunEnd(_, _)
ZeroRunEnd(ip, j) == IF j < 8 /\ V6u16(ip, j) = 0 THEN ZeroRunEnd(ip, j + 1) ELSE j

\* the first longest run of at least two zero groups: <<start, end>>, or
\* <<255, 255>> when there is none
RECURSIVE LongestZeroRun(_, _, _)
LongestZeroRun(ip, i, best) ==
    IF i >= 8 THEN best
    ELSE LET j == ZeroRunEnd(ip, i)
             l == j - i
         IN  LongestZeroRun(ip, i + 1,
                 IF l >= 2 /\ l > best[2] - best[1] THEN <<i, j>> ELSE best)

RECURSIVE String6From(_, _, _)
String6From(ip, i, z) ==
    IF i >= 8 THEN <<>>
    ELSE IF i = z[1]
    THEN <<58, 58>> \o (IF z[2] >= 8 THEN <<>>
                        ELSE AppendHex(V6u16(ip, z[2])) \o String6From(ip, z[2] + 1, z))
    ELSE (IF i > 0 THEN <<58>> ELSE <<>>)
         \o AppendHex(V6u16(ip, i)) \o String6From(ip, i + 1, z)

String4(p4) == Itoa(p4[1]) \o <<46>> \o Itoa(p4[2]) \o <<46>>
               \o Itoa(p4[3]) \o <<46>> \o Itoa(p4[4])

\* net.IP.String of a 4- or 16-byte address: dotted when To4 is not nil
IPString(ip) ==
    IF To4(ip) # <<>> THEN String4(To4(ip))
    ELSE String6From(ip, 0, LongestZeroRun(ip, 0, <<255, 255>>))

(***************************************************************************)
(* The wire constants (uot.go, const block).                               *)
(***************************************************************************)
UoTMagicByte == 238                                        \* 0xEE
uotVersion == 1                                            \* 0x01
maxUoTPayload == 64 * 1024

\* WritePreface on a writer that takes every byte: the bytes written
WritePreface == <<UoTMagicByte, uotVersion>>

(***************************************************************************)
(* io.ReadFull on a byte stream b of which pos bytes are consumed.  closed *)
(* tells whether the stream has ended after b (always so for a             *)
(* bytes.Reader); on a stream that has not, a read that lacks bytes takes  *)
(* the bytes that are there and waits for more ("block": the call has not  *)
(* returned).  Reading n = 0 bytes succeeds without touching the stream.   *)
(* [err, data, pos]                                                        *)
(***************************************************************************)
ReadFull(b, pos, n, closed) ==
    IF n = 0 \/ Len(b) - pos >= n
    THEN [err |-> "", data |-> SubSeq(b, pos + 1, pos + n), pos |-> pos + n]
    ELSE IF ~closed THEN [err |-> "block", data |-> <<>>, pos |-> Len(b)]
    ELSE IF Len(b) = pos THEN [err |-> "EOF", data |-> <<>>, pos |-> pos]
    ELSE [err |-> "unexpected EOF", data |-> <<>>, pos |-> Len(b)]

(***************************************************************************)
(* encodeAddress: [err, buf]                                               *)
(***************************************************************************)
\* a length test that is off by one
DomainTooLongOff(host) == Len(host) > 256

\* len(host) > 255
DomainTooLong(host) == Len(host) > 255

encodeAddress(rawAddr) ==
    LET Domain(host, portBytes) ==
            IF DomainTooLong(host)
            THEN [err |-> "domain too long", buf |-> <<>>]
            ELSE [err |-> "",
                  buf |-> <<3>> \o <<Len(host) % 256>> \o host \o portBytes]
        Address(host, ip, ip4, portBytes) ==
            IF ip # <<>>
            THEN IF ip4 # <<>>
                 THEN [err |-> "", buf |-> <<1>> \o ip4 \o portBytes]   \* IPv4
                 ELSE [err |-> "", buf |-> <<4>> \o ip \o portBytes]    \* IPv6
            ELSE Domain(host, portBytes)                               \* domain
        WithIP(host, ip, portBytes) == Address(host, ip, To4(ip), portBytes)
        WithPort(host, lp) ==
            IF lp.err # "" THEN [err |-> lp.err, buf |-> <<>>]
            ELSE WithIP(host, ParseIP(host), PutUint16(lp.port))
        Split(hp) ==
            IF hp.err # "" THEN [err |-> hp.err, buf |-> <<>>]
            ELSE WithPort(hp.host, LookupPort(hp.port))
    IN  Split(SplitHostPort(rawAddr))

(***************************************************************************)
(* decodeAddress on a bytes.Reader over b: [err, addr, n], n the number of *)
(* bytes read from the reader.                                             *)
(***************************************************************************)
DecodeErr(e, n) == [err |-> e, addr |-> <<>>, n |-> n]

\* the address and the port that follow the type tag: an IP of ipLen bytes
decodeIP(b, ipLen) ==
    LET ipBuf   == ReadFull(b, 1, ipLen, TRUE)
        portBuf == ReadFull(b, ipBuf.pos, 2, TRUE)
    IN  IF ipBuf.err # "" THEN DecodeErr(ipBuf.err, ipBuf.pos)
        ELSE IF portBuf.err # "" THEN DecodeErr(portBuf.err, portBuf.pos)
        ELSE [err |-> "",
              addr |-> JoinHostPort(IPString(ipBuf.data), Itoa(Uint16(portBuf.data))),
              n |-> portBuf.pos]

decodeDomain(b) ==
    LET lengthBuf == ReadFull(b, 1, 1, TRUE)
        l         == lengthBuf.data[1]
        hostBuf   == ReadFull(b, lengthBuf.pos, l, TRUE)
        portBuf   == ReadFull(b, hostBuf.pos, 2, TRUE)
    IN  IF lengthBuf.err # "" THEN DecodeErr(lengthBuf.err, lengthBuf.pos)
        ELSE IF hostBuf.err # "" THEN DecodeErr(hostBuf.err, hostBuf.pos)
        ELSE IF portBuf.err # "" THEN DecodeErr(portBuf.err, portBuf.pos)
        ELSE [err |-> "",
              addr |-> JoinHostPort(hostBuf.data, Itoa(Uint16(portBuf.data))),
              n |-> portBuf.pos]

\* a decoder that takes every tag other than 1 and 4 for a domain
decodeAddressLax(b) ==
    LET Tagged(atyp) ==
            IF atyp.err # "" THEN DecodeErr(atyp.err, atyp.pos)
            ELSE IF atyp.data[1] = 1 THEN decodeIP(b, 4)
            ELSE IF atyp.data[1] = 4 THEN decodeIP(b, 16)
            ELSE decodeDomain(b)
    IN  Tagged(ReadFull(b, 0, 1, TRUE))

\* a decoder that rejects bytes left over after the address
decodeAddressWhole(b) ==
    LET Whole(d) ==
            IF d.err = "" /\ d.n < Len(b) THEN DecodeErr("trailing bytes", d.n)
            ELSE d
        Tagged(atyp) ==
            IF atyp.err # "" THEN DecodeErr(atyp.err, atyp.pos)
            ELSE IF atyp.data[1] = 1 THEN Whole(decodeIP(b, 4))
            ELSE IF atyp.data[1] = 4 THEN Whole(decodeIP(b, 16))
            ELSE IF atyp.data[1] = 3 THEN Whole(decodeDomain(b))
            ELSE DecodeErr("unknown address type", atyp.pos)
    IN  Tagged(ReadFull(b, 0, 1, TRUE))

decodeAddress(b) ==
    LET atyp == ReadFull(b, 0, 1, TRUE)
    IN  IF atyp.err # "" THEN DecodeErr(atyp.err, atyp.pos)
        ELSE IF atyp.data[1] = 1 THEN decodeIP(b, 4)                    \* IPv4
        ELSE IF atyp.data[1] = 4 THEN decodeIP(b, 16)                   \* IPv6
        ELSE IF atyp.data[1] = 3 THEN decodeDomain(b)                   \* domain
        ELSE DecodeErr("unknown address type", atyp.pos)

(***************************************************************************)
(* WriteDatagram.  WriteDatagramCheck is what precedes the first write:    *)
(* [err, header, addrBuf].  WriteDatagram is the whole function on a       *)
(* writer w that takes every byte (a bytes.Buffer): [err, w].              *)
(***************************************************************************)
WriteDatagramCheck(addr, payload) ==
    LET Lengths(addrBuf) ==
            IF Len(addrBuf) = 0 \/ Len(addrBuf) > maxUoTPayload
            THEN [err |-> "address too long", header |-> <<>>, addrBuf |-> <<>>]
            ELSE IF Len(payload) > maxUoTPayload
            THEN [err |-> "payload too large", header |-> <<>>, addrBuf |-> <<>>]
            ELSE [err |-> "",
                  header |-> PutUint16(Len(addrBuf)) \o PutUint16(Len(payload)),
                  addrBuf |-> addrBuf]
        Encoded(enc) ==
            IF enc.err # ""
            THEN [err |-> "encode address", header |-> <<>>, addrBuf |-> <<>>]
            ELSE Lengths(enc.buf)
    IN  Encoded(encodeAddress(addr))

WriteDatagram(w, addr, payload) ==
    LET Writes(c) ==
            IF c.err # "" THEN [err |-> c.err, w |-> w]
            ELSE [err |-> "", w |-> w \o c.header \o c.addrBuf \o payload]
    IN  Writes(WriteDatagramCheck(addr, payload))

(***************************************************************************)
(* ReadDatagram on the stream b, pos bytes of which are consumed:          *)
(* [err, addr, payload, pos], pos the stream position the call leaves.     *)
(***************************************************************************)
ReadErr(e, pos) == [err |-> e, addr |-> <<>>, payload |-> <<>>, pos |-> pos]

\* a check that lets a zero length pass
validAddrLenNonNegative(addrLen) == ~(addrLen < 0 \/ addrLen > maxUoTPayload)

\* addrLen <= 0 || addrLen > maxUoTPayload is an invalid address length
validAddrLen(addrLen) == ~(addrLen <= 0 \/ addrLen > maxUoTPayload)

validPayloadLen(payloadLen) == ~(payloadLen < 0 \/ payloadLen > maxUoTPayload)

ReadDatagram(b, pos, closed) ==
    LET ReadPayload(dec, payload) ==
            IF payload.err # "" THEN ReadErr(payload.err, payload.pos)
            ELSE [err |-> "", addr |-> dec.addr, payload |-> payload.data,
                  pos |-> payload.pos]
        Decoded(addrBuf, dec, payloadLen) ==
            IF dec.err # ""
            THEN ReadErr("decode address: " \o dec.err, addrBuf.pos)
            ELSE ReadPayload(dec, ReadFull(b, addrBuf.pos, payloadLen, closed))
        ReadAddr(addrBuf, payloadLen) ==
            IF addrBuf.err # "" THEN ReadErr(addrBuf.err, addrBuf.pos)
            ELSE Decoded(addrBuf, decodeAddress(addrBuf.data), payloadLen)
        Lengths(header, addrLen, payloadLen) ==
            IF ~validAddrLen(addrLen)
            THEN ReadErr("invalid address length", header.pos)
            ELSE IF ~validPayloadLen(payloadLen)
            THEN ReadErr("invalid payload length", header.pos)
            ELSE ReadAddr(ReadFull(b, header.pos, addrLen, closed), payloadLen)
        Header(header) ==
            IF header.err # "" THEN ReadErr(header.err, header.pos)
            ELSE Lengths(header, Uint16(SubSeq(header.data, 1, 2)),
                         Uint16(SubSeq(header.data, 3, 4)))
    IN  Header(ReadFull(b, pos, 4, closed))

(***************************************************************************)
(* Bounds of the model.                                                    *)
(***************************************************************************)
\* WriteTo calls made on the one UoTPacketConn, each by a goroutine of its own
MaxWriters == 3
\* frames the peer puts on the stream that ReadFrom reads
MaxFrames == 3
\* ReadFrom calls made in a run
MaxReads == 3
\* reads of the stream that fail on a deadline or a closed connection in a run
MaxDeadlines == 1
\* goroutines that call the methods of the one RuleWrapper
MaxCallers == 2
\* calls made on the RuleWrapper in a run
MaxCalls == 4
\* the last reading of the clock
MaxNow == 2

(***************************************************************************)
(* The state.  Four specifications share it: SpecWrite (concurrent         *)
(* WriteTo on one UoTPacketConn), SpecRead (ReadFrom on the stream a peer  *)
(* feeds), SpecCodec (WriteDatagram and ReadDatagram as functions) and     *)
(* SpecRule (concurrent calls on one RuleWrapper).                         *)
(***************************************************************************)
VARIABLES
    wire,       \* the bytes c.conn has taken from Write, in order
    owner,      \* history: for each byte of wire, the WriteTo call that wrote it
    writeMu,    \* c.writeMu: 0 when free, else the goroutine that holds it
    wr,         \* per WriteTo call: where it is, its arguments, its result
    pre,        \* WritePreface on the stream: whether it was called, its error
    rstream,    \* the bytes the peer has put on the stream c.conn reads
    rclosed,    \* whether the peer has closed it (reads past the end meet EOF)
    rpos,       \* how many bytes of rstream the reads have consumed
    rd,         \* the one reader: where it is in ReadFrom, its buffer, its result
    sent,       \* history: the frames the peer sent, with their place in rstream
    log,        \* history: one entry per ReadDatagram call ReadFrom has made
    cdc,        \* the framer applied to one input: the input and what it gave
    rw,         \* the RuleWrapper: disabled, hitCount, hitAt, missCount, missAt
    gr,         \* per goroutine: where it is in its call on rw, and its result
    now,        \* the clock time.Now() reads, in microseconds
    tally       \* history: the calls made on rw and on the wrapped rule

wvars == <<wire, owner, writeMu, wr, pre>>
rvars == <<rstream, rclosed, rpos, rd, sent, log>>
rulevars == <<rw, gr, now, tally>>

Writers == 1..MaxWriters

(***************************************************************************)
(* Inputs of WriteTo.  A net.Addr is nil or has a String().  The payload   *)
(* of call w is w bytes of value 160 + w (distinct small payloads), or one *)
(* byte more than the framer takes; a state holds the key, not the bytes.  *)
(***************************************************************************)
NilAddr == [nil |-> TRUE, str |-> <<>>]
AddrOf(str) == [nil |-> FALSE, str |-> str]

WAddrs == { NilAddr,
            AddrOf(<<49, 46, 50, 46, 51, 46, 52, 58, 53, 51>>),         \* "1.2.3.4:53"
            AddrOf(<<97, 46, 98>>) }                                    \* "a.b"

WPayloadKeys == {"small", "over"}

WPayload(w, k) ==
    IF k = "small" THEN [i \in 1..w |-> 160 + w] ELSE Zeros(maxUoTPayload + 1)

InitWrite ==
    /\ wire = <<>>
    /\ owner = <<>>
    /\ writeMu = 0
    /\ pre = [called |-> FALSE, err |-> ""]
    /\ wr = [w \in Writers |->
               [pc |-> "idle", addr |-> NilAddr, pk |-> "small", n |-> 0,
                err |-> "", locked |-> FALSE, unlocked |-> FALSE]]

(***************************************************************************)
(* UoTPacketConn.WriteTo, a step at a time: the nil check, Lock, the part  *)
(* of WriteDatagram before its first write, its three writes, and the      *)
(* deferred Unlock with the return.  pc is "idle" before the call and      *)
(* "done" once it has returned (n, err); locked and unlocked record        *)
(* whether the call has passed Lock and Unlock.                            *)
(***************************************************************************)
\* a WriteTo that returned the number of bytes it put on the stream
WriteToOkTotal(p) == [n |-> 4 + 7 + Len(p), err |-> ""]

\* the result of a WriteTo that wrote its datagram
WriteToOk(p) == [n |-> Len(p), err |-> ""]

\* the result of a WriteTo that failed with e
WriteToFail(e) == [n |-> 0, err |-> e]

\* a Lock that does not wait
MuFreeAlways(w) == TRUE

\* sync.Mutex.Lock returns only when no one holds the mutex
MuFree(w) == writeMu = 0

\* the arguments of the call
Payload(w) == WPayload(w, wr[w].pk)
Checked(w) == WriteDatagramCheck(wr[w].addr.str, Payload(w))

\* the numbers of bytes of data a Write may take before it returns: none, a
\* part, all
Takes(data) == {0, Len(data) \div 2, Len(data)}

\* WritePreface(conn): at setup, before the stream is used for datagrams, the
\* caller writes the marker and the version on it (owner 0).  The stream
\* takes the first taken bytes; the Write returns no error (ok) only when it
\* took them all, else WritePreface returns its error, the bytes taken
\* staying on the stream.
Preface(taken, ok) ==
    /\ ~pre.called
    /\ \A w \in Writers : wr[w].pc = "idle"
    /\ taken \in Takes(WritePreface)
    /\ ok => taken = Len(WritePreface)
    /\ wire' = wire \o SubSeq(WritePreface, 1, taken)
    /\ owner' = owner \o [k \in 1..taken |-> 0]
    /\ pre' = [called |-> TRUE, err |-> IF ok THEN "" ELSE "write failed"]
    /\ UNCHANGED <<writeMu, wr>>
    /\ UNCHANGED <<rvars, cdc, rulevars>>

\* goroutine w calls WriteTo(p, addr); with a nil addr it returns at once.
\* (Calls start in the order of their numbers: goroutines are interchangeable.)
WriteToCall(w, a, pk) ==
    /\ wr[w].pc = "idle"
    /\ IF w = 1 THEN TRUE ELSE wr[w - 1].pc # "idle"
    /\ IF a.nil
       THEN wr' = [wr EXCEPT ![w].pc = "done", ![w].addr = a, ![w].pk = pk,
                             ![w].n = WriteToFail("address is nil").n,
                             ![w].err = WriteToFail("address is nil").err]
       ELSE wr' = [wr EXCEPT ![w].pc = "lock", ![w].addr = a, ![w].pk = pk]
    /\ UNCHANGED <<wire, owner, writeMu>>
    /\ UNCHANGED <<pre, rvars, cdc, rulevars>>

\* c.writeMu.Lock()
Lock(w) ==
    /\ wr[w].pc = "lock"
    /\ MuFree(w)
    /\ writeMu' = w
    /\ wr' = [wr EXCEPT ![w].pc = "check", ![w].locked = TRUE]
    /\ UNCHANGED <<wire, owner>>
    /\ UNCHANGED <<pre, rvars, cdc, rulevars>>

\* a WriteDatagram that writes the length of the payload before it checks anything
CheckWritesFirst(w) ==
    /\ wr[w].pc = "check"
    /\ wire' = wire \o PutUint16(0) \o PutUint16(Len(Payload(w)) % 65536)
    /\ owner' = owner \o <<w, w, w, w>>
    /\ IF Checked(w).err # ""
       THEN wr' = [wr EXCEPT ![w].pc = "unlock",
                             ![w].n = WriteToFail(Checked(w).err).n,
                             ![w].err = WriteToFail(Checked(w).err).err]
       ELSE wr' = [wr EXCEPT ![w].pc = "addr"]
    /\ UNCHANGED writeMu
    /\ UNCHANGED <<pre, rvars, cdc, rulevars>>

\* WriteDatagram up to its first write: the address is encoded, the lengths checked
Check(w) ==
    /\ wr[w].pc = "check"
    /\ IF Checked(w).err # ""
       THEN wr' = [wr EXCEPT ![w].pc = "unlock",
                             ![w].n = WriteToFail(Checked(w).err).n,
                             ![w].err = WriteToFail(Checked(w).err).err]
       ELSE wr' = [wr EXCEPT ![w].pc = "header"]
    /\ UNCHANGED <<wire, owner, writeMu>>
    /\ UNCHANGED <<pre, rvars, cdc, rulevars>>

\* those numbers for the writes of the model: the longest is an address of 7 bytes
WriteTakes == 0..7

\* one w.Write(data) of WriteDatagram: the stream takes the first taken bytes
\* of data; the write returns no error (ok) only when it took them all, else
\* it fails (a deadline, a closed or reset connection) and WriteDatagram
\* returns its error, the bytes taken staying on the stream
StreamWrite(w, at, data, taken, ok, next) ==
    /\ wr[w].pc = at
    /\ taken \in Takes(data)
    /\ ok => taken = Len(data)
    /\ wire' = wire \o SubSeq(data, 1, taken)
    /\ owner' = owner \o [k \in 1..taken |-> w]
    /\ IF ok
       THEN IF next = "unlock"
            THEN wr' = [wr EXCEPT ![w].pc = "unlock",
                                  ![w].n = WriteToOk(Payload(w)).n,
                                  ![w].err = WriteToOk(Payload(w)).err]
            ELSE wr' = [wr EXCEPT ![w].pc = next]
       ELSE wr' = [wr EXCEPT ![w].pc = "unlock",
                             ![w].n = WriteToFail("write failed").n,
                             ![w].err = WriteToFail("write failed").err]
    /\ UNCHANGED writeMu
    /\ UNCHANGED <<pre, rvars, cdc, rulevars>>

WriteHeader(w, taken, ok) ==
    StreamWrite(w, "header", Checked(w).header, taken, ok, "addr")

WriteAddr(w, taken, ok) ==
    StreamWrite(w, "addr", Checked(w).addrBuf, taken, ok, "payload")

WritePayload(w, taken, ok) ==
    StreamWrite(w, "payload", Payload(w), taken, ok, "unlock")

\* a WriteTo that unlocks only on its successful return
UnlockOnSuccess(w) ==
    /\ wr[w].pc = "unlock"
    /\ writeMu' = IF wr[w].err = "" THEN 0 ELSE writeMu
    /\ wr' = [wr EXCEPT ![w].pc = "done", ![w].unlocked = (wr[w].err = "")]
    /\ UNCHANGED <<wire, owner>>
    /\ UNCHANGED <<pre, rvars, cdc, rulevars>>

\* the deferred c.writeMu.Unlock(), and WriteTo returns
Unlock(w) ==
    /\ wr[w].pc = "unlock"
    /\ writeMu' = 0
    /\ wr' = [wr EXCEPT ![w].pc = "done", ![w].unlocked = TRUE]
    /\ UNCHANGED <<wire, owner>>
    /\ UNCHANGED <<pre, rvars, cdc, rulevars>>

(***************************************************************************)
(* net.ResolveUDPAddr("udp", address), as called by ReadFrom:              *)
(* [err, nil, ip, port, zone].  A host that is no IP literal is looked up  *)
(* in the DNS, which here knows the one name "a.b".                        *)
(***************************************************************************)
UDPNil == [nil |-> TRUE, ip |-> <<>>, port |-> 0, zone |-> <<>>]

LookupHost(host) ==
    IF host = <<97, 46, 98>> THEN <<10, 0, 0, 1>> ELSE <<>>             \* "a.b"

ResolveUDPAddr(address) ==
    LET IPOf(host, a) ==
            IF host = <<>> THEN <<>>
            ELSE IF a.ok THEN (IF Len(a.ip) = 4 THEN V4InV6(a.ip) ELSE a.ip)
            ELSE V4InV6(LookupHost(host))
        Host(host, a, port) ==
            IF host # <<>> /\ ~a.ok /\ LookupHost(host) = <<>>
            THEN [err |-> "no such host", addr |-> UDPNil]
            ELSE [err |-> "",
                  addr |-> [nil |-> FALSE, ip |-> IPOf(host, a), port |-> port,
                            zone |-> IF a.ok THEN a.zone ELSE <<>>]]
        Port(host, lp) ==
            IF lp.err # "" THEN [err |-> lp.err, addr |-> UDPNil]
            ELSE Host(host, ParseAddr(host), lp.port)
        Split(hp) ==
            IF hp.err # "" THEN [err |-> hp.err, addr |-> UDPNil]
            ELSE Port(hp.host, LookupPort(hp.port))
    IN  Split(SplitHostPort(address))

(***************************************************************************)
(* UoTPacketConn.ReadFrom.  ReadFromIter is one pass of its loop on the    *)
(* stream b at pos with the caller's buffer p:                             *)
(*   [out, n, addr, err, p, pos]                                           *)
(* out is "return" (ReadFrom returns n, addr, err), "continue" (the frame  *)
(* is discarded and the loop goes on) or "block" (ReadDatagram waits for   *)
(* bytes, having consumed those that were there); p and pos are the buffer *)
(* and the stream position it leaves.                                      *)
(***************************************************************************)
\* copy(p, payload)
Copy(p, payload) ==
    [i \in 1..Len(p) |-> IF i <= Len(payload) THEN payload[i] ELSE p[i]]

\* the errors of ReadDatagram for address bytes that do not decode
DecodeErrors ==
    {"decode address: unknown address type", "decode address: EOF",
     "decode address: unexpected EOF"}

\* a ReadFrom that discards a frame whose address bytes do not decode
ReadFailedDiscards(r, p) ==
    [out |-> IF r.err \in DecodeErrors THEN "continue" ELSE "return",
     n |-> 0, addr |-> UDPNil,
     err |-> IF r.err \in DecodeErrors THEN "" ELSE r.err, p |-> p,
     pos |-> r.pos]

\* a ReadFrom that reads again after a failed read
ReadFailedRetry(r, p) ==
    [out |-> "continue", n |-> 0, addr |-> UDPNil, err |-> "", p |-> p,
     pos |-> r.pos]

\* ReadDatagram failed with r.err: ReadFrom returns 0, nil, err
ReadFailed(r, p) ==
    [out |-> "return", n |-> 0, addr |-> UDPNil, err |-> r.err, p |-> p,
     pos |-> r.pos]

\* a comparison that is off by one
TooLongOrEqual(payload, p) == Len(payload) >= Len(p)

\* len(payload) > len(p)
TooLong(payload, p) == Len(payload) > Len(p)

\* a ReadFrom that copies what fits before it reports the short buffer
ShortBufferPartialCopy(r, p) ==
    [out |-> "return", n |-> 0, addr |-> UDPNil, err |-> "short buffer",
     p |-> Copy(p, r.payload), pos |-> r.pos]

\* a ReadFrom that reports the short buffer with the payload still on the stream
ShortBufferUnread(r, p) ==
    [out |-> "return", n |-> 0, addr |-> UDPNil, err |-> "short buffer", p |-> p,
     pos |-> r.pos - Len(r.payload)]

\* the payload does not fit p: ReadFrom returns 0, nil, io.ErrShortBuffer
ShortBuffer(r, p) ==
    [out |-> "return", n |-> 0, addr |-> UDPNil, err |-> "short buffer", p |-> p,
     pos |-> r.pos]

\* a ReadFrom that hands out the payload of a frame whose address does not resolve
DiscardDelivers(r, p) ==
    [out |-> "return", n |-> Len(r.payload), addr |-> UDPNil, err |-> "",
     p |-> Copy(p, r.payload), pos |-> r.pos]

\* a ReadFrom that discards a frame and leaves its payload on the stream
DiscardUnread(r, p) ==
    [out |-> "continue", n |-> 0, addr |-> UDPNil, err |-> "", p |-> p,
     pos |-> r.pos - Len(r.payload)]

\* a ReadFrom that returns the resolver's error
DiscardReturns(r, p) ==
    [out |-> "return", n |-> 0, addr |-> UDPNil, err |-> "no such host", p |-> p,
     pos |-> r.pos]

\* the address does not resolve: the datagram is discarded, the loop goes on
Discard(r, p) ==
    [out |-> "continue", n |-> 0, addr |-> UDPNil, err |-> "", p |-> p,
     pos |-> r.pos]

\* copy(p, payload); ReadFrom returns len(payload), udpAddr, nil
Deliver(r, p, udpAddr) ==
    [out |-> "return", n |-> Len(r.payload), addr |-> udpAddr, err |-> "",
     p |-> Copy(p, r.payload), pos |-> r.pos]

\* the pass of the loop after its ReadDatagram gave r
ReadFromPass(r, p) ==
    LET Resolved(udp) ==
            IF udp.err # "" THEN Discard(r, p)
            ELSE Deliver(r, p, udp.addr)
    IN  IF r.err = "block"
        THEN [out |-> "block", n |-> 0, addr |-> UDPNil, err |-> "",
              p |-> p, pos |-> r.pos]
        ELSE IF r.err # "" THEN ReadFailed(r, p)
        ELSE IF TooLong(r.payload, p) THEN ShortBuffer(r, p)
        ELSE Resolved(ResolveUDPAddr(r.addr))

ReadFromIter(b, pos, closed, p) == ReadFromPass(ReadDatagram(b, pos, closed), p)

\* net.ResolveUDPAddr asks the resolver for the host of address: the port is
\* known and the host is a name, no IP literal
Lookup(address) ==
    LET Named(hp) == /\ hp.err = "" /\ LookupPort(hp.port).err = ""
                     /\ hp.host # <<>> /\ ~ParseAddr(hp.host).ok
    IN  Named(SplitHostPort(address))

\* the pass whose ReadDatagram gave r goes on to net.ResolveUDPAddr and waits
\* there for the resolver
Resolving(r, p) == r.err = "" /\ ~TooLong(r.payload, p) /\ Lookup(r.addr)

(***************************************************************************)
(* The peer: it sends whole frames, well-formed or not, and may close the  *)
(* stream, also in the middle of a frame.                                  *)
(***************************************************************************)
\* a frame as it stands on the wire, with the lengths its header declares
RawFrame(addrLen, payloadLen, addr, payload) ==
    PutUint16(addrLen) \o PutUint16(payloadLen) \o addr \o payload

Frame(addr, payload) == RawFrame(Len(addr), Len(payload), addr, payload)

\* what the peer sends: the address bytes and the payload of a frame, what
\* the address is (kind) and, when it resolves, the UDP address it stands for
UDPOf(ip4, port) == [nil |-> FALSE, ip |-> V4InV6(ip4), port |-> port, zone |-> <<>>]

PeerFrames ==
    { \* 1.2.3.4:53, a payload of 1 byte
      [kind |-> "resolves", addr |-> <<1, 1, 2, 3, 4, 0, 53>>,
       payload |-> <<11>>, udp |-> UDPOf(<<1, 2, 3, 4>>, 53)],
      \* the domain "a.b", which resolves to 10.0.0.1, port 80, a payload of 3 bytes
      [kind |-> "resolves", addr |-> <<3, 3, 97, 46, 98, 0, 80>>,
       payload |-> <<21, 22, 23>>, udp |-> UDPOf(<<10, 0, 0, 1>>, 80)],
      \* the domain "x", which does not resolve, payloads of 1 and 3 bytes
      [kind |-> "unresolvable", addr |-> <<3, 1, 120, 0, 80>>,
       payload |-> <<31>>, udp |-> UDPNil],
      [kind |-> "unresolvable", addr |-> <<3, 1, 120, 0, 80>>,
       payload |-> <<41, 42, 43>>, udp |-> UDPNil],
      \* an IPv4 address cut short, a payload of 1 byte
      [kind |-> "undecodable", addr |-> <<1, 1, 2>>,
       payload |-> <<81>>, udp |-> UDPNil],
      \* an unknown address type and no payload (payloadLen = 0)
      [kind |-> "undecodable", addr |-> <<9, 9>>,
       payload |-> <<>>, udp |-> UDPNil],
      \* no address at all, a payload of 1 byte
      [kind |-> "noaddress", addr |-> <<>>,
       payload |-> <<61>>, udp |-> UDPNil],
      \* no address at all and no payload: a header of four zero bytes
      [kind |-> "noaddress", addr |-> <<>>,
       payload |-> <<>>, udp |-> UDPNil] }

\* the frame the peer is sending when it closes the stream, and the numbers of
\* its bytes that may have gone out: none, a part of the header, of the
\* address, of the payload
LastFrame == Frame(<<1, 1, 2, 3, 4, 0, 53>>, <<71, 72>>)
Cuts == {0, 2, 6, 12}

\* the caller's buffers: their lengths, and what they hold before the call
BufLens == {2, 3}
NewBuf(l) == [i \in 1..l |-> 255]

InitRead ==
    /\ rstream = <<>>
    /\ rclosed = FALSE
    /\ rpos = 0
    /\ rd = [pc |-> "idle", p |-> <<>>, n |-> 0, addr |-> UDPNil, err |-> "",
             start |-> 0, at |-> 0, skipped |-> 0, calls |-> 0, fails |-> 0]
    /\ sent = <<>>
    /\ log = <<>>

PeerSend(f) ==
    /\ ~rclosed
    /\ Len(sent) < MaxFrames
    /\ rstream' = rstream \o Frame(f.addr, f.payload)
    /\ sent' = Append(sent, [start |-> Len(rstream),
                             end |-> Len(rstream) + Len(Frame(f.addr, f.payload)),
                             kind |-> f.kind, payload |-> f.payload,
                             udp |-> f.udp])
    /\ UNCHANGED <<rclosed, rpos, rd, log>>
    /\ UNCHANGED <<wvars, cdc, rulevars>>

\* the peer closes the stream after the first cut bytes of a last frame
PeerClose(cut) ==
    /\ ~rclosed
    /\ rclosed' = TRUE
    /\ rstream' = rstream \o SubSeq(LastFrame, 1, cut)
    /\ UNCHANGED <<rpos, rd, sent, log>>
    /\ UNCHANGED <<wvars, cdc, rulevars>>

\* the reader calls ReadFrom(p) with a buffer of l bytes; rd.start is the
\* stream position at the call, rd.at the one at which the ReadDatagram of
\* the current pass of the loop began
ReadFromCall(l) ==
    /\ rd.pc # "loop"
    /\ rd.calls < MaxReads
    /\ rd' = [pc |-> "loop", p |-> NewBuf(l), n |-> 0, addr |-> UDPNil, err |-> "",
              start |-> rpos, at |-> rpos, skipped |-> 0, calls |-> rd.calls + 1,
              fails |-> rd.fails]
    /\ UNCHANGED <<rstream, rclosed, rpos, sent, log>>
    /\ UNCHANGED <<wvars, cdc, rulevars>>

\* the pass of the loop that began at rd.at has ended as it says, after
\* failed more reads that failed on a deadline
Passed(it, failed) ==
    /\ rpos' = it.pos
    /\ rd' = IF it.out = "return"
             THEN [rd EXCEPT !.pc = "done", !.p = it.p, !.n = it.n,
                             !.addr = it.addr, !.err = it.err, !.at = it.pos,
                             !.fails = rd.fails + failed]
             ELSE [rd EXCEPT !.skipped = rd.skipped + 1, !.at = it.pos,
                             !.fails = rd.fails + failed]
    /\ log' = Append(log, [start |-> rd.at, end |-> it.pos, out |-> it.out,
                           err |-> it.err, n |-> it.n, addr |-> it.addr,
                           p |-> it.p, buflen |-> Len(rd.p), call |-> rd.calls])

\* the reader goes on in ReadFrom as far as it can without waiting.  When
\* the bytes the pass needs are not there, io.ReadFull takes those that are
\* and waits for more.  When ReadDatagram has read a frame that fits the
\* buffer and whose host is a name, the pass waits in net.ResolveUDPAddr for
\* the resolver, the frame consumed and nothing yet discarded or returned;
\* the next step is the answer of the resolver and the end of the pass.
\* Else the step goes to the end of the pass.
ReadFromStep ==
    /\ rd.pc = "loop"
    /\ \E r \in {ReadDatagram(rstream, rd.at, rclosed)} :
           IF r.err = "block"
           THEN /\ rpos < r.pos
                /\ rpos' = r.pos
                /\ UNCHANGED <<rd, log>>
           ELSE IF Resolving(r, rd.p) /\ rpos < r.pos
           THEN /\ rpos' = r.pos
                /\ UNCHANGED <<rd, log>>
           ELSE Passed(ReadFromPass(r, rd.p), 0)
    /\ UNCHANGED <<rstream, rclosed, sent>>
    /\ UNCHANGED <<wvars, cdc, rulevars>>

\* the stream positions at which a Read of the pass may fail, between from,
\* where the pass stands, and to, as far as it would get: the first, and one
\* in the middle
ReadFailPoints(from, to) == {from, (from + to) \div 2}

\* a Read of the stream within ReadDatagram fails with an error that is not
\* the end of the stream: the deadline set through SetReadDeadline or
\* SetDeadline has passed, or the connection was closed through Close.  The
\* pass has consumed the stream up to k, and ReadFrom returns the error.  A
\* pass that would end at r.pos without an error of the stream has done its
\* last Read before r.pos.
ReadDeadline(k) ==
    /\ rd.pc = "loop"
    /\ rd.fails < MaxDeadlines
    /\ k >= rpos
    /\ \E r \in {ReadDatagram(rstream, rd.at, rclosed)} :
           /\ k \in ReadFailPoints(rpos, r.pos)
           /\ k < r.pos \/ r.err \in {"block", "EOF", "unexpected EOF"}
    /\ Passed(ReadFailed(ReadErr("i/o timeout", k), rd.p), 1)
    /\ UNCHANGED <<rstream, rclosed, sent>>
    /\ UNCHANGED <<wvars, cdc, rulevars>>

\* the positions of the streams of the model: a stream holds MaxFrames frames
\* of at most 14 bytes and the 12 bytes of a frame cut short
StreamPositions == 0..(14 * MaxFrames + 12)

NextRead ==
    \/ \E f \in PeerFrames : PeerSend(f)
    \/ \E cut \in Cuts : PeerClose(cut)
    \/ \E l \in BufLens : ReadFromCall(l)
    \/ ReadFromStep
    \/ \E k \in StreamPositions : ReadDeadline(k)

(***************************************************************************)
(* The framer as functions: WriteDatagram on an empty bytes.Buffer for an  *)
(* address and a payload, then ReadDatagram on what was written; and       *)
(* ReadDatagram on a stream whose header declares given lengths.           *)
(***************************************************************************)
\* a domain name of n bytes
Name(n) == [i \in 1..n |-> 97]                                          \* "aaa..."

Endpoints ==
    {
      <<57, 51, 46, 49, 56, 52, 46, 50, 49, 54, 46, 51, 52, 58, 52, 52, 51>>,  \* "93.184.216.34:443"
      <<49, 46, 50, 46, 51, 46, 52, 58, 53, 51>>,  \* "1.2.3.4:53"
      <<91, 58, 58, 49, 93, 58, 53, 51>>,  \* "[::1]:53"
      <<91, 50, 48, 48, 49, 58, 100, 98, 56, 58, 58, 49, 93, 58, 56, 48, 56, 48>>,  \* "[2001:db8::1]:8080"
      <<91, 58, 58, 102, 102, 102, 102, 58, 49, 46, 50, 46, 51, 46, 52, 93, 58, 56, 48>>,  \* "[::ffff:1.2.3.4]:80"
      <<97, 46, 98, 58, 56, 48>>,  \* "a.b:80"
      <<97, 46, 98, 58, 100, 111, 109, 97, 105, 110>>,  \* "a.b:domain"
      <<58, 48>>,  \* ":0"
      <<91, 102, 101, 56, 48, 58, 58, 49, 37, 101, 116, 104, 48, 93, 58, 53, 51>>,  \* "[fe80::1%eth0]:53"
      <<97, 46, 98>>,  \* "a.b"
      <<97, 46, 98, 58, 55, 48, 48, 48, 48>>,  \* "a.b:70000"
      <<49, 46, 50, 46, 51, 46, 52, 58, 120>>,  \* "1.2.3.4:x"
      Name(255) \o <<58, 56, 48>>,                                      \* 255 bytes, ":80"
      Name(256) \o <<58, 56, 48>> }                                     \* 256 bytes, ":80"

\* payloads: 1, 2, 3, ... (mod 251)
PayloadOf(n) == [i \in 1..n |-> i % 251]

\* inputs of WriteDatagram, <<addr, len(payload)>>: every endpoint with a
\* short payload, and two endpoints with payloads at the maximum, one below
\* and one above
PayloadLens == {0, 1, 3}
LargePayloadLens == {maxUoTPayload - 1, maxUoTPayload, maxUoTPayload + 1}
LargeEndpoints ==
    { <<49, 46, 50, 46, 51, 46, 52, 58, 53, 51>>,  \* "1.2.3.4:53"
      <<97, 46, 98, 58, 56, 48>> }  \* "a.b:80"
WriteInputs ==
    (Endpoints \X PayloadLens) \cup (LargeEndpoints \X LargePayloadLens)

\* streams for ReadDatagram, <<addrLen, payloadLen, len(body)>>: a header
\* that declares addrLen and payloadLen, then the address 1.2.3.4:53 padded
\* with zeros to addrLen bytes (cut to addrLen if that is less than its 7
\* bytes) and body
DeclaredAddrLens == {0, 1, 7, 8}
DeclaredPayloadLens == {0, 2}
Bodies == {0, 2, 3}
RawInputs ==
    (DeclaredAddrLens \X DeclaredPayloadLens \X Bodies)
    \cup { <<7, maxUoTPayload - 1, maxUoTPayload - 1>>,
           <<maxUoTPayload - 1, 0, 0>>,
           <<maxUoTPayload - 1, 2, 2>>,
           <<7, maxUoTPayload - 1, 2>> }

AddrBytes(addrLen) ==
    [i \in 1..addrLen |-> IF i <= 7 THEN <<1, 1, 2, 3, 4, 0, 53>>[i] ELSE 0]

CodecStart ==
    [step |-> "start", addr |-> <<>>, plen |-> 0, al |-> 0, pl |-> 0,
     werr |-> "", w |-> <<>>,
     rerr |-> "", raddr |-> <<>>, rpayload |-> <<>>, rpos |-> 0]

InitCodec == cdc = CodecStart

\* WriteDatagram(&buf, addr, payload), payload the n bytes PayloadOf(n)
CodecWrite(addr, n) ==
    /\ cdc.step = "start"
    /\ \E res \in {WriteDatagram(<<>>, addr, PayloadOf(n))} :
           cdc' = [cdc EXCEPT !.step = "written", !.addr = addr,
                              !.plen = n, !.werr = res.err, !.w = res.w]
    /\ UNCHANGED <<wvars, rvars, rulevars>>

\* ReadDatagram(bytes.NewReader(b))
CodecReadBytes(b, step) ==
    \E r \in {ReadDatagram(b, 0, TRUE)} :
        cdc' = [cdc EXCEPT !.step = step, !.w = b, !.rerr = r.err,
                           !.raddr = r.addr, !.rpayload = r.payload,
                           !.rpos = r.pos]

\* ReadDatagram on what WriteDatagram wrote
CodecRead ==
    /\ cdc.step = "written"
    /\ cdc.werr = ""
    /\ CodecReadBytes(cdc.w, "read")
    /\ UNCHANGED <<wvars, rvars, rulevars>>

\* ReadDatagram on a stream whose header declares addrLen and payloadLen
CodecReadRaw(addrLen, payloadLen, body) ==
    /\ cdc.step = "start"
    /\ \E b \in {RawFrame(addrLen, payloadLen, AddrBytes(addrLen), PayloadOf(body))} :
       \E r \in {ReadDatagram(b, 0, TRUE)} :
           cdc' = [cdc EXCEPT !.step = "rawread", !.al = addrLen,
                              !.pl = payloadLen, !.plen = body,
                              !.w = b, !.rerr = r.err, !.raddr = r.addr,
                              !.rpayload = r.payload, !.rpos = r.pos]
    /\ UNCHANGED <<wvars, rvars, rulevars>>

\* inputs of encodeAddress: the endpoints, and names around the longest
EncodeInputs ==
    Endpoints \cup { Name(1) \o <<58, 56, 48>>,                         \* "a:80"
                     Name(254) \o <<58, 56, 48>>,
                     Name(257) \o <<58, 56, 48>>,
                     Name(300) \o <<58, 56, 48>>,
                     <<97, 46, 98, 58, 68, 79, 77, 65, 73, 78>>,        \* "a.b:DOMAIN"
                     <<97, 37, 98, 58, 56, 48>> }                       \* "a%b:80"

\* encodeAddress(rawAddr): cdc.w is the buffer it returns
CodecEncode(rawAddr) ==
    /\ cdc.step = "start"
    /\ \E enc \in {encodeAddress(rawAddr)} :
           cdc' = [cdc EXCEPT !.step = "encoded", !.addr = rawAddr,
                              !.werr = enc.err, !.w = enc.buf]
    /\ UNCHANGED <<wvars, rvars, rulevars>>

\* sixteen address bytes, 2001:db8::1
IPv6Bytes == <<32, 1, 13, 184, 0, 0, 0, 0, 0, 0, 0, 0, 0, 0, 0, 1>>

\* inputs of decodeAddress: whole, cut and overlong encodings under each of
\* the tags 1, 3 and 4, and other tags
DecodeInputs ==
    { <<>>, <<0>>, <<2, 1, 2, 3, 4, 0, 53>>, <<5>>, <<9, 9>>, <<255, 3, 97, 0, 80>>,
      <<1>>, <<1, 1, 2>>, <<1, 1, 2, 3, 4>>, <<1, 1, 2, 3, 4, 0>>,
      <<1, 1, 2, 3, 4, 0, 53>>, <<1, 1, 2, 3, 4, 0, 53, 7>>,
      <<4>>, <<4>> \o IPv6Bytes, <<4>> \o IPv6Bytes \o <<31>>,
      <<4>> \o IPv6Bytes \o <<31, 144>>, <<4>> \o IPv6Bytes \o <<31, 144, 7, 7>>,
      <<3>>, <<3, 0>>, <<3, 0, 0, 80>>, <<3, 3, 97>>, <<3, 3, 97, 46, 98>>,
      <<3, 3, 97, 46, 98, 0>>, <<3, 3, 97, 46, 98, 0, 80>>,
      <<3, 3, 97, 46, 98, 0, 80, 7>>,
      <<3, 3, 97, 37, 98, 0, 80>>,                                      \* "a%b", 80
      <<3, 255>> \o Name(255) \o <<0, 80>>, <<3, 255>> \o Name(255) \o <<0>> }

\* decodeAddress(bytes.NewReader(b)): cdc.rpos is the number of bytes it read
CodecDecode(b) ==
    /\ cdc.step = "start"
    /\ \E d \in {decodeAddress(b)} :
           cdc' = [cdc EXCEPT !.step = "decoded", !.w = b, !.rerr = d.err,
                              !.raddr = d.addr, !.rpos = d.n]
    /\ UNCHANGED <<wvars, rvars, rulevars>>

NextCodec ==
    \/ \E in \in WriteInputs : CodecWrite(in[1], in[2])
    \/ CodecRead
    \/ \E in \in RawInputs : CodecReadRaw(in[1], in[2], in[3])
    \/ \E rawAddr \in EncodeInputs : CodecEncode(rawAddr)
    \/ \E b \in DecodeInputs : CodecDecode(b)

(***************************************************************************)
(* RuleWrapper (rules/wrapper/wrapper.go).  Its fields are atomics: every  *)
(* Load, Store and Add is one step.  Hit is hitCount.Add(1), then a        *)
(* reading of the clock, then hitAt.Store of that reading; Miss likewise.  *)
(* Match loads disabled; when it is false it calls the wrapped rule, which *)
(* answers (ok, adapter), and then Hit or Miss.  A goroutine is "idle"     *)
(* outside a call; nth counts its calls, op is its last call, seen what    *)
(* that call loaded from disabled, ret what Match returned, and hits and   *)
(* misses by how much that call has raised the two counters.               *)
(***************************************************************************)
Callers == 1..MaxCallers

Adapters == {"", "proxy"}

NoResult == [ok |-> FALSE, adapter |-> ""]

\* NewRuleWrapper(rule): the zero values of the fields
NewRuleWrapper ==
    [disabled |-> FALSE, hitCount |-> 0, hitAt |-> 0, missCount |-> 0, missAt |-> 0]

InitRule ==
    /\ rw = NewRuleWrapper
    /\ gr = [g \in Callers |->
               [pc |-> "idle", nth |-> 0, op |-> "", seen |-> FALSE, ok |-> FALSE,
                adapter |-> "", t |-> 0, ret |-> NoResult, hits |-> 0, misses |-> 0]]
    /\ now = 1
    /\ tally = [calls |-> 0, passed |-> 0, ruleCalls |-> 0, matched |-> 0,
                unmatched |-> 0, hit |-> 0, miss |-> 0, overlap |-> FALSE]

\* an Add that is lost once the counter is above zero
AddLost(c, d) == IF c > 0 THEN c ELSE c + d

\* atomic.Uint64.Add.  The counter wraps to 0 at 2^64, which takes 2^64 Adds
\* from the zero value of NewRuleWrapper: no run of MaxCalls calls gets there.
Add(c, d) == c + d

\* a wrapper that is never seen as disabled
IsDisabledNever == FALSE

\* r.disabled.Load()
IsDisabled == rw.disabled

\* goroutine g begins a call of op
Begin(g, op, pc) ==
    [gr EXCEPT ![g] = [pc |-> pc, nth |-> gr[g].nth + 1, op |-> op, seen |-> FALSE,
                       ok |-> FALSE, adapter |-> "", t |-> 0, ret |-> NoResult,
                       hits |-> 0, misses |-> 0]]

CanCall(g) == gr[g].pc = "idle" /\ tally.calls < MaxCalls

\* the clock moves on
Tick ==
    /\ now < MaxNow
    /\ now' = now + 1
    /\ UNCHANGED <<rw, gr, tally>>
    /\ UNCHANGED <<wvars, rvars, cdc>>

\* r.SetDisabled(v)
SetDisabled(g, v) ==
    /\ CanCall(g)
    /\ rw' = [rw EXCEPT !.disabled = v]
    /\ gr' = Begin(g, "SetDisabled", "idle")
    /\ tally' = [tally EXCEPT !.calls = @ + 1]
    /\ UNCHANGED now
    /\ UNCHANGED <<wvars, rvars, cdc>>

\* r.Match(metadata, helper) up to its test of IsDisabled(): disabled, it returns
\* (false, ""); else it goes on to the wrapped rule
MatchCall(g) ==
    /\ CanCall(g)
    /\ IF IsDisabled
       THEN /\ gr' = [Begin(g, "Match", "idle") EXCEPT ![g].seen = rw.disabled,
                                                       ![g].ret = NoResult]
            /\ tally' = [tally EXCEPT !.calls = @ + 1]
       ELSE /\ gr' = [Begin(g, "Match", "rule") EXCEPT ![g].seen = rw.disabled]
            /\ tally' = [tally EXCEPT !.calls = @ + 1, !.passed = @ + 1]
    /\ UNCHANGED <<rw, now>>
    /\ UNCHANGED <<wvars, rvars, cdc>>

\* ok, adapter := r.Rule.Match(metadata, helper)
RuleMatch(g, ok, adapter) ==
    /\ gr[g].pc = "rule"
    /\ gr' = [gr EXCEPT ![g].pc = IF ok THEN "hit" ELSE "miss",
                        ![g].ok = ok, ![g].adapter = adapter]
    /\ tally' = [tally EXCEPT !.ruleCalls = @ + 1,
                              !.matched = IF ok THEN @ + 1 ELSE @,
                              !.unmatched = IF ok THEN @ ELSE @ + 1]
    /\ UNCHANGED <<rw, now>>
    /\ UNCHANGED <<wvars, rvars, cdc>>

\* r.Hit() called from outside Match
HitCall(g) ==
    /\ CanCall(g)
    /\ gr' = Begin(g, "Hit", "hit")
    /\ tally' = [tally EXCEPT !.calls = @ + 1, !.hit = @ + 1]
    /\ UNCHANGED <<rw, now>>
    /\ UNCHANGED <<wvars, rvars, cdc>>

\* r.Miss() called from outside Match
MissCall(g) ==
    /\ CanCall(g)
    /\ gr' = Begin(g, "Miss", "miss")
    /\ tally' = [tally EXCEPT !.calls = @ + 1, !.miss = @ + 1]
    /\ UNCHANGED <<rw, now>>
    /\ UNCHANGED <<wvars, rvars, cdc>>

\* another goroutine is inside Hit or Miss
Overlaps(g) == \E h \in Callers \ {g} : gr[h].pc \notin {"idle", "rule"}

\* r.hitCount.Add(1)
HitAdd(g) ==
    /\ gr[g].pc = "hit"
    /\ rw' = [rw EXCEPT !.hitCount = Add(rw.hitCount, 1)]
    /\ gr' = [gr EXCEPT ![g].pc = "hitNow",
                        ![g].hits = @ + rw'.hitCount - rw.hitCount]
    /\ tally' = [tally EXCEPT !.overlap = @ \/ Overlaps(g)]
    /\ UNCHANGED now
    /\ UNCHANGED <<wvars, rvars, cdc>>

\* r.missCount.Add(1)
MissAdd(g) ==
    /\ gr[g].pc = "miss"
    /\ rw' = [rw EXCEPT !.missCount = Add(rw.missCount, 1)]
    /\ gr' = [gr EXCEPT ![g].pc = "missNow",
                        ![g].misses = @ + rw'.missCount - rw.missCount]
    /\ tally' = [tally EXCEPT !.overlap = @ \/ Overlaps(g)]
    /\ UNCHANGED now
    /\ UNCHANGED <<wvars, rvars, cdc>>

\* time.Now().UnixMicro(), in Hit and in Miss
ReadClock(g) ==
    /\ gr[g].pc \in {"hitNow", "missNow"}
    /\ gr' = [gr EXCEPT ![g].pc = IF gr[g].pc = "hitNow" THEN "hitStore" ELSE "missStore",
                        ![g].t = now]
    /\ UNCHANGED <<rw, now, tally>>
    /\ UNCHANGED <<wvars, rvars, cdc>>

\* what the call returns after Hit or Miss: Match returns (ok, adapter)
Returned(g) ==
    [gr EXCEPT ![g].pc = "idle",
               ![g].ret = IF gr[g].op = "Match"
                          THEN [ok |-> gr[g].ok, adapter |-> gr[g].adapter]
                          ELSE NoResult]

\* r.hitAt.Store(...), and the call returns
HitStore(g) ==
    /\ gr[g].pc = "hitStore"
    /\ rw' = [rw EXCEPT !.hitAt = gr[g].t]
    /\ gr' = Returned(g)
    /\ UNCHANGED <<now, tally>>
    /\ UNCHANGED <<wvars, rvars, cdc>>

\* r.missAt.Store(...), and the call returns
MissStore(g) ==
    /\ gr[g].pc = "missStore"
    /\ rw' = [rw EXCEPT !.missAt = gr[g].t]
    /\ gr' = Returned(g)
    /\ UNCHANGED <<now, tally>>
    /\ UNCHANGED <<wvars, rvars, cdc>>

NextRule ==
    \/ Tick
    \/ \E g \in Callers, v \in BOOLEAN : SetDisabled(g, v)
    \/ \E g \in Callers : MatchCall(g)
    \/ \E g \in Callers, ok \in BOOLEAN, adapter \in Adapters : RuleMatch(g, ok, adapter)
    \/ \E g \in Callers : HitCall(g)
    \/ \E g \in Callers : MissCall(g)
    \/ \E g \in Callers : HitAdd(g)
    \/ \E g \in Callers : MissAdd(g)
    \/ \E g \in Callers : ReadClock(g)
    \/ \E g \in Callers : HitStore(g)
    \/ \E g \in Callers : MissStore(g)

NextWrite ==
    \/ \E taken \in WriteTakes, ok \in BOOLEAN : Preface(taken, ok)
    \/ \E w \in Writers, a \in WAddrs, pk \in WPayloadKeys : WriteToCall(w, a, pk)
    \/ \E w \in Writers : Lock(w)
    \/ \E w \in Writers : Check(w)
    \/ \E w \in Writers, taken \in WriteTakes, ok \in BOOLEAN :
           WriteHeader(w, taken, ok)
    \/ \E w \in Writers, taken \in WriteTakes, ok \in BOOLEAN :
           WriteAddr(w, taken, ok)
    \/ \E w \in Writers, taken \in WriteTakes, ok \in BOOLEAN :
           WritePayload(w, taken, ok)
    \/ \E w \in Writers : Unlock(w)

vars == <<wvars, rvars, cdc, rulevars>>

Init == InitWrite /\ InitRead /\ InitCodec /\ InitRule

\* concurrent WriteTo calls on one UoTPacketConn
SpecWrite == Init /\ [][NextWrite]_vars

\* ReadFrom calls on the stream a peer feeds
SpecRead == Init /\ [][NextRead]_vars

\* WriteDatagram and ReadDatagram applied to one input
SpecCodec == Init /\ [][NextCodec]_vars

\* concurrent calls of Match, Hit, Miss and SetDisabled on one RuleWrapper
SpecRule == Init /\ [][NextRule]_vars

\* ReadFrom calls that go on: a goroutine inside ReadFrom is scheduled, and a
\* read of a stream that has ended returns.  This is weak fairness of
\* ReadFromStep, asked only of a call on an ended stream, where the step is
\* enabled (C14_Consumed has it as NotStuck).
SpecReadLive ==
    SpecRead /\ (<>[](rd.pc = "loop" /\ rclosed) => []<><<ReadFromStep>>_vars)

\* WriteTo calls that go on.  A goroutine waiting in sync.Mutex.Lock gets the
\* mutex if it is released again and again (strong fairness of Lock: a waiter
\* of more than 1ms puts the mutex in starvation mode, where Unlock hands it
\* to the waiter at the front of the queue).  A goroutine that is not blocked
\* is scheduled, and each Write of the stream returns: weak fairness of the
\* steps between Lock and the return.  Such a step is enabled exactly when
\* the call stands at it and always moves the call on, so its weak fairness
\* says that the call is not at that step for ever (StaysNot).
StaysNot(w, at) == []<>(wr[w].pc # at)

WriteFair(w) ==
    /\ SF_vars(Lock(w))
    /\ StaysNot(w, "check")
    /\ StaysNot(w, "header")
    /\ StaysNot(w, "addr")
    /\ StaysNot(w, "payload")
    /\ WF_vars(Unlock(w))

SpecWriteLive == SpecWrite /\ \A w \in Writers : WriteFair(w)

(***************************************************************************)
(* Properties of WriteTo (SpecWrite).                                      *)
(***************************************************************************)
\* the bytes of wire that call w wrote, in order
RECURSIVE BytesFrom(_, _)
BytesFrom(w, i) ==
    IF i > Len(owner) THEN <<>>
    ELSE (IF owner[i] = w THEN <<wire[i]>> ELSE <<>>) \o BytesFrom(w, i + 1)

BytesOf(w) == BytesFrom(w, 1)

\* the frame of call w: header, address, payload
FrameOf(w) == Checked(w).header \o Checked(w).addrBuf \o Payload(w)

\* the bytes of the preface on the wire
PrefaceLen == Cardinality({i \in 1..Len(owner) : owner[i] = 0})

\* the calls in the order in which their first bytes stand on the wire
RECURSIVE OwnersInOrder(_)
OwnersInOrder(i) ==
    IF i > Len(owner) THEN <<>>
    ELSE IF owner[i] = 0 \/ (i > 1 /\ owner[i] = owner[i - 1])
    THEN OwnersInOrder(i + 1)
    ELSE <<owner[i]>> \o OwnersInOrder(i + 1)

\* the payloads of the frames ReadDatagram finds on b from pos to its end;
\* <<"error">> at the end when the bytes do not end with a whole frame
RECURSIVE ReadBack(_, _)
ReadBack(b, pos) ==
    LET r == ReadDatagram(b, pos, TRUE)
    IN  IF r.err = "EOF" THEN <<>>
        ELSE IF r.err # "" THEN << <<"error">> >>
        ELSE <<r.payload>> \o ReadBack(b, r.pos)

\* no call is between its first and its last write, and none has failed in a write
WireQuiet ==
    \A w \in Writers : /\ wr[w].pc \in {"idle", "lock", "check", "done"}
                       /\ wr[w].err # "write failed"

\* C1: concurrent WriteTo calls never interleave their frames. The bytes of one
\* call stand together on the stream; a call that returned without error has
\* put exactly its frame there; and when no call is within a frame (and no
\* write has failed) the stream reads back, after the preface if one was
\* written, as exactly one whole frame per successful call, with that call's
\* payload.
C1_NoInterleaving ==
    /\ \A i \in 2..Len(owner) :
           owner[i] # owner[i - 1] => \A j \in 1..(i - 1) : owner[j] # owner[i]
    /\ \A w \in Writers :
           (wr[w].pc = "done" /\ wr[w].err = "") => BytesOf(w) = FrameOf(w)
    /\ WireQuiet =>
           LET order == OwnersInOrder(1)
           IN  /\ ReadBack(wire, PrefaceLen)
                      = [k \in 1..Len(order) |-> Payload(order[k])]
               /\ Len(order) = Cardinality({w \in Writers : wr[w].unlocked
                                                           /\ wr[w].err = ""})

\* all the calls have written their frames, and not in the order of their start
C1_Witness ==
    /\ \A w \in Writers : wr[w].pc = "done" /\ wr[w].err = ""
    /\ Len(owner) > 0 /\ owner[1] = MaxWriters
    /\ owner[Len(owner)] = 1

\* C10: WriteTo with a nil address fails with the nil-address error and returns
\* 0; a WriteTo that succeeds returns len(payload), which is less than what it
\* put on the stream; a WriteTo that fails returns 0.
C10_WriteToResult ==
    \A w \in Writers :
        wr[w].pc = "done" =>
            /\ wr[w].addr.nil => (wr[w].err = "address is nil" /\ wr[w].n = 0)
            /\ wr[w].err = "" => /\ wr[w].n = Len(Payload(w))
                                 /\ wr[w].n < Len(BytesOf(w))
                                 /\ ~wr[w].addr.nil
            /\ wr[w].err # "" => wr[w].n = 0

\* one call returned for a nil address, one after a failed check, one with success
C10_Witness ==
    /\ wr[1].pc = "done" /\ wr[1].addr.nil /\ wr[1].n = 0
    /\ wr[2].pc = "done" /\ wr[2].err = "" /\ wr[2].n = 2
    /\ wr[3].pc = "done" /\ wr[3].err \in {"encode address", "payload too large",
                                           "write failed"}

\* the call holds c.writeMu: it is between Lock and the deferred Unlock
InGuard(w) == wr[w].pc \in {"check", "header", "addr", "payload", "unlock"}

\* the errors WriteTo returns with before its first write
ValidationErrors ==
    {"address is nil", "encode address", "address too long", "payload too large"}

\* the guard is held by exactly the call that is between Lock and Unlock; a
\* call that has returned after Lock has passed Unlock; a call with a nil
\* address has never passed Lock
C15_Released ==
    /\ \A w \in Writers :
           /\ (writeMu = w) <=> InGuard(w)
           /\ wr[w].pc = "done" => (wr[w].locked <=> wr[w].unlocked)
           /\ (wr[w].pc = "done" /\ ~wr[w].addr.nil) => wr[w].locked
           /\ (wr[w].pc # "idle" /\ wr[w].addr.nil)
                  => (wr[w].pc = "done" /\ ~wr[w].locked /\ writeMu # w)
    /\ (\A w \in Writers : wr[w].pc \in {"idle", "lock", "done"}) => writeMu = 0

\* C15: the write guard is released on every return path of WriteTo and is
\* never acquired by a WriteTo with a nil address; with concurrent callers and
\* stream writes that return, every WriteTo call that has begun returns.
C15_GuardReleased ==
    /\ []C15_Released
    /\ \A w \in Writers : (wr[w].pc # "idle") ~> (wr[w].pc = "done")

\* every return path has been taken after a Lock: success, a failed encoding,
\* a failed size check, or a failed write; and the guard is free again
C15_Witness ==
    /\ writeMu = 0
    /\ \A w \in Writers : wr[w].pc = "done" /\ wr[w].locked /\ wr[w].unlocked
    /\ wr[1].err \in {"encode address", "payload too large"}
    /\ wr[2].err = "write failed"
    /\ wr[3].err = ""

\* a call with a nil address has returned while another call held the guard
C15_WitnessNil ==
    /\ wr[1].pc = "payload" /\ writeMu = 1
    /\ wr[2].pc = "done" /\ wr[2].addr.nil /\ ~wr[2].locked
    /\ wr[3].pc = "lock"

\* C16: a WriteTo that fails validation (nil address, address that does not
\* encode, encoded address of length 0 or above the maximum, payload above the
\* maximum) has written no byte to the stream.
C16_NoByteWritten ==
    \A w \in Writers :
        (wr[w].pc \in {"unlock", "done"} /\ wr[w].err \in ValidationErrors)
            => /\ BytesOf(w) = <<>>
               /\ \A i \in 1..Len(owner) : owner[i] # w

\* a call was rejected for its address and one for its payload, after another
\* call had put its frame on the stream, which holds that frame and no more
C16_Witness ==
    /\ wr[1].pc = "done" /\ wr[1].err = "" /\ wire = FrameOf(1)
    /\ wr[2].pc = "done" /\ wr[2].err = "encode address" /\ wr[2].unlocked
    /\ wr[3].pc = "done" /\ wr[3].err = "payload too large" /\ wr[3].unlocked

(***************************************************************************)
(* Properties of ReadFrom (SpecRead).  The frames the peer sent (sent) say *)
(* what is on the stream; log says what each pass of the loop did.         *)
(***************************************************************************)
\* no Read of pass k failed on a deadline: the pass read what the stream held
ReadThrough(k) == log[k].err # "i/o timeout"

\* a Read of a pass failed on a deadline within frame i or a frame before it,
\* after bytes of the frame were consumed
CutBefore(i) ==
    \E k \in 1..Len(log) :
        /\ ~ReadThrough(k) /\ log[k].end > log[k].start
        /\ log[k].start <= sent[i].start

\* the address bytes of frame i decode
Decodable(i) == sent[i].kind \in {"resolves", "unresolvable"}

\* ReadDatagram leaves no byte of frame i unread: it reads the frame whole, or
\* it fails on the header or the address of a frame that has no payload bytes
ReadWhole(i) == Decodable(i) \/ sent[i].payload = <<>>

\* pass k of the loop returned frame i to the caller
Delivered(k, i) ==
    /\ log[k].out = "return" /\ log[k].err = ""
    /\ log[k].n = Len(sent[i].payload)
    /\ SubSeq(log[k].p, 1, log[k].n) = sent[i].payload
    /\ log[k].addr = sent[i].udp
    /\ log[k].end = sent[i].end

\* the ReadFrom call that has returned began at frame i, whose address is of
\* one of the kinds; a frame that resolves follows; both payloads fit the
\* buffer; no read of the call failed on a deadline
C3_Case(i, kinds) ==
    /\ rd.pc = "done" /\ rd.start = sent[i].start
    /\ rd.err # "i/o timeout"
    /\ sent[i].kind \in kinds
    /\ i + 1 <= Len(sent) /\ sent[i + 1].kind = "resolves"
    /\ Len(sent[i].payload) <= Len(rd.p)
    /\ Len(sent[i + 1].payload) <= Len(rd.p)

\* that call skipped frame i and returned frame i + 1
C3_Returned(i) ==
    /\ rd.err = "" /\ rd.skipped = 1
    /\ rd.n = Len(sent[i + 1].payload)
    /\ SubSeq(rd.p, 1, rd.n) = sent[i + 1].payload
    /\ rd.addr = sent[i + 1].udp
    /\ rpos = sent[i + 1].end

\* C3 as amended: when the stream holds a frame whose address decodes but does
\* not resolve, with a payload that fits the caller's buffer, followed by a
\* well-formed frame, a single ReadFrom call skips the first frame and returns
\* the payload and the source address of the second.
C3_SkipsUnresolvable ==
    \A i \in 1..Len(sent) : C3_Case(i, {"unresolvable"}) => C3_Returned(i)

C3_Witness == \E i \in 1..Len(sent) : C3_Case(i, {"unresolvable"})

\* C3 as stated: the same also when the address bytes of the first frame do not
\* decode (an unknown type tag).
C3_Original ==
    \A i \in 1..Len(sent) :
        C3_Case(i, {"unresolvable", "undecodable"}) => C3_Returned(i)

\* C4: when ReadFrom reads a frame whose payload is longer than the caller's
\* buffer it returns the short-buffer error with 0 and no address, has not gone
\* on to a later frame, and has left the caller's buffer as it was.
C4_ShortBuffer ==
    \A k \in 1..Len(log) : \A i \in 1..Len(sent) :
        (/\ log[k].start = sent[i].start /\ ReadThrough(k)
         /\ Decodable(i)
         /\ Len(sent[i].payload) > log[k].buflen)
        => /\ log[k].out = "return" /\ log[k].err = "short buffer"
           /\ log[k].n = 0 /\ log[k].addr = UDPNil
           /\ log[k].p = NewBuf(log[k].buflen)
           /\ log[k].end = sent[i].end
           /\ log[k].call = rd.calls =>
                  /\ rd.pc = "done" /\ rd.err = "short buffer"
                  /\ rd.n = 0 /\ rd.addr = UDPNil
                  /\ rd.p = NewBuf(Len(rd.p))
                  /\ rpos = sent[i].end

\* a call that skipped a frame and then met one too long for its buffer
C4_Witness ==
    /\ rd.pc = "done" /\ rd.err = "short buffer" /\ rd.skipped >= 1
    /\ \E i \in 1..Len(sent) : rpos = sent[i].end /\ sent[i].kind = "resolves"

\* C5: after ReadFrom fails with the short-buffer error the stream position is
\* at the start of the next frame (the whole frame, 4 + addrLen + payloadLen
\* bytes, is consumed), and the next call returns the frame that follows when
\* that one resolves and fits.
C5_AfterShortBuffer ==
    \A k \in 1..Len(log) :
        log[k].err = "short buffer" =>
            LET s  == log[k].start
                al == Uint16(SubSeq(rstream, s + 1, s + 2))
                pl == Uint16(SubSeq(rstream, s + 3, s + 4))
            IN  /\ log[k].end = s + 4 + al + pl
                /\ \A i \in 1..Len(sent) :
                       sent[i].start = s => log[k].end = sent[i].end
                /\ k = Len(log) => rd.at = log[k].end
                /\ (k = Len(log) /\ rd.pc = "done") => rpos = log[k].end
                /\ k < Len(log) =>
                       /\ log[k + 1].start = log[k].end
                       /\ \A i \in 1..Len(sent) :
                              (/\ sent[i].start = log[k].end
                               /\ ReadThrough(k + 1)
                               /\ sent[i].kind = "resolves"
                               /\ Len(sent[i].payload) <= log[k + 1].buflen)
                              => Delivered(k + 1, i)

\* a short-buffer failure, and the next call returns the frame that followed
C5_Witness ==
    \E k \in 1..(Len(log) - 1) :
        /\ log[k].err = "short buffer"
        /\ \E i \in 1..Len(sent) :
               sent[i].start = log[k].end /\ Delivered(k + 1, i)

\* what pass k did with frame i, as ReadFrom is meant to: short buffer when the
\* payload does not fit, else delivery when the address resolves, else discard
Handled(k, i) ==
    /\ log[k].start = sent[i].start /\ log[k].end = sent[i].end
    /\ IF Len(sent[i].payload) > log[k].buflen THEN log[k].err = "short buffer"
       ELSE IF sent[i].kind = "resolves" THEN Delivered(k, i)
       ELSE log[k].out = "continue"

\* the passes of the loop go through the stream without a gap or a step back
LogInOrder ==
    /\ \A k \in 1..(Len(log) - 1) : log[k + 1].start = log[k].end
    /\ Len(log) > 0 => (log[1].start = 0 /\ log[Len(log)].end = rd.at)
    /\ rd.at <= rpos /\ rpos <= Len(rstream)
    /\ rd.pc # "loop" => rpos = rd.at

\* C7 as amended: the passes of ReadFrom go through the stream in order, and
\* as long as no earlier frame was left with payload bytes unread (one whose
\* header or address bytes fail and that has a payload) and no read has
\* failed within a frame, each frame whose address decodes is handled once
\* and in its place: a frame that resolves and fits the buffer of the call
\* that reads it is returned by that call (one that does not fit fails that
\* call with the short-buffer error), so successful calls return resolvable
\* frames in stream order, none twice and none that fits dropped.
C7_InOrder ==
    /\ LogInOrder
    /\ \A i \in 1..Len(sent) :
           (/\ Decodable(i)
            /\ \A j \in 1..(i - 1) : ReadWhole(j)
            /\ ~CutBefore(i)
            /\ rd.at >= sent[i].end)
           => \E k \in 1..Len(log) : Handled(k, i)

\* two successive successful calls returned the first and the third frame, the
\* second one having been discarded
C7_Witness ==
    /\ Len(sent) = 3 /\ rpos = sent[3].end
    /\ sent[2].kind = "unresolvable"
    /\ \E k \in 1..Len(log) : Delivered(k, 1)
    /\ \E k \in 1..Len(log) : Delivered(k, 3)

\* C7 as stated: every resolvable frame the reads have passed was returned by a
\* call (or failed a call whose buffer it does not fit), whatever preceded it
\* on the stream.
C7_Original ==
    \A i \in 1..Len(sent) :
        (sent[i].kind = "resolves" /\ ~CutBefore(i) /\ rd.at >= sent[i].end)
        => \E k \in 1..Len(log) : Handled(k, i)

\* pass k ended its call with the error e, 0 and no address
EndedWith(k, e) ==
    /\ log[k].out = "return" /\ log[k].err = e
    /\ log[k].n = 0 /\ log[k].addr = UDPNil
    /\ \A j \in (k + 1)..Len(log) : log[j].call > log[k].call
    /\ log[k].call = rd.calls =>
           /\ rd.pc = "done" /\ rd.err = e
           /\ rd.n = 0 /\ rd.addr = UDPNil

\* C8: a stream read error (end of stream, also within a frame, or a failed
\* Read) met by a pass of ReadFrom, also after frames were skipped in the same
\* call, ends the call with that error, 0 and no address: the call does not
\* read again.
C8_ReadError ==
    /\ \A k \in 1..Len(log) :
           LET e == ReadDatagram(rstream, log[k].start, TRUE).err
           IN  (e \in {"EOF", "unexpected EOF"} /\ ReadThrough(k)) =>
                   rclosed /\ EndedWith(k, e)
    /\ \A k \in 1..Len(log) : ~ReadThrough(k) => EndedWith(k, "i/o timeout")
    /\ rd.fails = Cardinality({k \in 1..Len(log) : ~ReadThrough(k)})

\* a call that skipped a frame and then met the end of the stream within a frame
C8_Witness ==
    /\ rd.pc = "done" /\ rd.skipped >= 1 /\ rd.err = "unexpected EOF"
    /\ rd.n = 0 /\ rpos = Len(rstream)

(***************************************************************************)
(* Properties of the framer (SpecCodec).                                   *)
(***************************************************************************)
\* what a host stands for: the address it spells (16-byte form and zone),
\* or else the name itself
HostKey(host) ==
    LET Key(a) == IF a.ok
                  THEN <<"ip", IF Len(a.ip) = 4 THEN V4InV6(a.ip) ELSE a.ip, a.zone>>
                  ELSE <<"name", host>>
    IN  Key(ParseAddr(host))

\* what an endpoint "host:port" stands for: its host and its port number
EndpointKey(e) ==
    LET Key(hp) == <<hp.err, HostKey(hp.host), LookupPort(hp.port)>>
    IN  Key(SplitHostPort(e))

\* two endpoints with the same host and the same port
Equivalent(a, b) ==
    /\ EndpointKey(a) = EndpointKey(b)
    /\ EndpointKey(a)[1] = ""
    /\ EndpointKey(a)[3].err = ""

\* the lengths a header declares
HeaderAddrLen(b) == Uint16(SubSeq(b, 1, 2))
HeaderPayloadLen(b) == Uint16(SubSeq(b, 3, 4))

\* C2: ReadDatagram on the bytes of a successful WriteDatagram(E, P), for a
\* payload P of at most maxUoTPayload bytes, returns an endpoint equivalent
\* to E and the payload P, and leaves the stream at the end of the frame.
C2_RoundTrip ==
    (cdc.step = "read" /\ cdc.werr = "" /\ cdc.plen <= maxUoTPayload)
    => /\ cdc.rerr = ""
       /\ Equivalent(cdc.raddr, cdc.addr)
       /\ cdc.rpayload = PayloadOf(cdc.plen)
       /\ cdc.rpos = Len(cdc.w)

\* C6: a successful WriteDatagram(addr, payload) writes the two lengths, the
\* encoded address and the payload, in this order and nothing else; the
\* address-length field is the number of address bytes written and the
\* payload-length field the number of payload bytes written; the bytes for
\* "93.184.216.34:443" and 01 02 03 are those of the example.
C6_FrameLayout ==
    (cdc.step = "written" /\ cdc.werr = "")
    => /\ Len(cdc.w) >= 4
       /\ cdc.w = SubSeq(cdc.w, 1, 4) \o encodeAddress(cdc.addr).buf \o PayloadOf(cdc.plen)
       /\ HeaderAddrLen(cdc.w) = Len(encodeAddress(cdc.addr).buf)
       /\ HeaderPayloadLen(cdc.w) = Len(PayloadOf(cdc.plen))
       /\ (/\ cdc.addr = <<57, 51, 46, 49, 56, 52, 46, 50, 49, 54, 46, 51, 52,
                           58, 52, 52, 51>>
           /\ PayloadOf(cdc.plen) = <<1, 2, 3>>)
          => cdc.w = <<0, 7, 0, 3, 1, 93, 184, 216, 34, 1, 187, 1, 2, 3>>

\* C9: ReadDatagram fails with an invalid-length error exactly when the
\* address length of the header is outside (0, maxUoTPayload] or its payload
\* length outside [0, maxUoTPayload]; a header with address length 0 is
\* rejected; a header with payload length 0 whose address bytes decode
\* succeeds with an empty payload.
C9_InvalidFrame ==
    cdc.step \in {"rawread", "read"}
    => LET al == HeaderAddrLen(cdc.w)
           pl == HeaderPayloadLen(cdc.w)
       IN  /\ cdc.rerr \in {"invalid address length", "invalid payload length"}
              <=> (al <= 0 \/ al > maxUoTPayload \/ pl < 0 \/ pl > maxUoTPayload)
           /\ al = 0 => cdc.rerr = "invalid address length" /\ cdc.rpos = 4
           /\ (/\ pl = 0 /\ al > 0 /\ Len(cdc.w) >= 4 + al
               /\ decodeAddress(SubSeq(cdc.w, 5, 4 + al)).err = "")
              => cdc.rerr = "" /\ cdc.rpayload = <<>> /\ cdc.rpos = 4 + al

\* a header with address length 0 was rejected
C9_Witness ==
    /\ cdc.step = "rawread" /\ HeaderAddrLen(cdc.w) = 0
    /\ cdc.rerr = "invalid address length"

\* a header with payload length 0 and the address 1.2.3.4:53 gave an empty payload
C9_WitnessEmpty ==
    /\ cdc.step = "rawread" /\ HeaderPayloadLen(cdc.w) = 0
    /\ HeaderAddrLen(cdc.w) = 7 /\ cdc.rerr = "" /\ cdc.rpayload = <<>>

\* the bytes decodeAddress needs for the tag b begins with, 0 when the length
\* byte of a domain is missing
NeededBytes(b) ==
    IF b[1] = 1 THEN 1 + 4 + 2
    ELSE IF b[1] = 4 THEN 1 + 16 + 2
    ELSE IF Len(b) >= 2 THEN 1 + 1 + b[2] + 2
    ELSE 0

\* C11: decodeAddress on bytes whose tag is none of 1, 3, 4 fails with the
\* unknown-type error and has read the tag alone; under the tags 1, 4 and 3
\* it reads exactly 1+4+2, 1+16+2 and 1+1+N+2 bytes when that many are
\* there, and fails with an end-of-input error when they are not.
C11_DecodeTags ==
    (cdc.step = "decoded" /\ Len(cdc.w) >= 1)
    => IF cdc.w[1] \notin {1, 3, 4}
       THEN cdc.rerr = "unknown address type" /\ cdc.rpos = 1
       ELSE IF NeededBytes(cdc.w) > 0 /\ Len(cdc.w) >= NeededBytes(cdc.w)
       THEN cdc.rerr = "" /\ cdc.rpos = NeededBytes(cdc.w)
       ELSE /\ cdc.rerr \in {"EOF", "unexpected EOF"}
            /\ cdc.rpos = Len(cdc.w)

\* an unknown tag with bytes after it was rejected after one byte
C11_Witness ==
    /\ cdc.step = "decoded" /\ cdc.w = <<2, 1, 2, 3, 4, 0, 53>>
    /\ cdc.rerr = "unknown address type" /\ cdc.rpos = 1

\* the host of an endpoint that encodeAddress takes for a domain name
IsDomain(e) ==
    LET Named(hp) == /\ hp.err = "" /\ LookupPort(hp.port).err = ""
                     /\ ParseIP(hp.host) = <<>>
    IN  Named(SplitHostPort(e))

\* C12: encodeAddress of an endpoint whose host is a domain name of at most
\* 255 bytes succeeds with tag 3, a length byte equal to the length of the
\* name, the name, and the port; a name of 256 bytes or more fails with the
\* domain-too-long error and no bytes.
C12_DomainLength ==
    (cdc.step = "encoded" /\ IsDomain(cdc.addr))
    => LET host == SplitHostPort(cdc.addr).host
       IN  IF Len(host) <= 255
           THEN /\ cdc.werr = ""
                /\ Len(cdc.w) = 1 + 1 + Len(host) + 2
                /\ cdc.w[1] = 3 /\ cdc.w[2] = Len(host)
                /\ SubSeq(cdc.w, 3, 2 + Len(host)) = host
           ELSE cdc.werr = "domain too long" /\ cdc.w = <<>>

\* names of 255 and of 256 bytes: the first encoded, the second rejected
C12_Witness ==
    /\ cdc.step = "encoded" /\ cdc.addr = Name(256) \o <<58, 56, 48>>
    /\ cdc.werr = "domain too long"

C12_Witness255 ==
    /\ cdc.step = "encoded" /\ cdc.addr = Name(255) \o <<58, 56, 48>>
    /\ cdc.werr = "" /\ cdc.w[2] = 255 /\ Len(cdc.w) = 259

\* C18: a successful ReadDatagram has consumed exactly 4 + addrLen +
\* payloadLen bytes and returns the payloadLen bytes that follow the addrLen
\* address bytes; bytes that follow the encoded address within the addrLen
\* bytes are consumed and ignored: a frame whose address bytes begin with an
\* encoded address, and which is whole on the stream, is read with success.
C18_ConsumesFrame ==
    cdc.step \in {"rawread", "read"}
    => LET al == HeaderAddrLen(cdc.w)
           pl == HeaderPayloadLen(cdc.w)
       IN  /\ cdc.rerr = ""
              => /\ cdc.rpos = 4 + al + pl
                 /\ Len(cdc.rpayload) = pl
                 /\ cdc.rpayload = SubSeq(cdc.w, 4 + al + 1, 4 + al + pl)
           /\ (/\ al >= 7 /\ Len(cdc.w) >= 4 + al + pl
               /\ SubSeq(cdc.w, 5, 11) = <<1, 1, 2, 3, 4, 0, 53>>)
              => /\ cdc.rerr = ""
                 /\ cdc.raddr = <<49, 46, 50, 46, 51, 46, 52, 58, 53, 51>>  \* "1.2.3.4:53"

\* a frame of 8 address bytes, the 7 of 1.2.3.4:53 and one more, was read
C18_Witness ==
    /\ cdc.step = "rawread" /\ HeaderAddrLen(cdc.w) = 8
    /\ HeaderPayloadLen(cdc.w) = 2 /\ cdc.rerr = ""
    /\ cdc.rpos = 14 /\ cdc.rpayload = <<1, 2>>

(***************************************************************************)
(* More properties of ReadFrom (SpecRead, SpecReadLive).                   *)
(***************************************************************************)
\* pass k of the loop began at frame i, whose address does not resolve, and
\* read it
AtUnresolvable(k, i) ==
    /\ log[k].start = sent[i].start /\ sent[i].kind = "unresolvable"
    /\ ReadThrough(k)

\* C13 as amended: a frame whose address does not resolve and whose payload
\* fits the caller's buffer is discarded whole and the loop goes on, with no
\* error; one whose payload is longer than the buffer ends the call with the
\* short-buffer error, as the lengths are compared before the address is
\* resolved.
C13_DiscardsUnresolvable ==
    \A k \in 1..Len(log) : \A i \in 1..Len(sent) :
        AtUnresolvable(k, i)
        => /\ log[k].end = sent[i].end
           /\ log[k].n = 0 /\ log[k].addr = UDPNil
           /\ log[k].p = NewBuf(log[k].buflen)
           /\ IF Len(sent[i].payload) <= log[k].buflen
              THEN log[k].out = "continue" /\ log[k].err = ""
              ELSE log[k].out = "return" /\ log[k].err = "short buffer"

\* a call has discarded an unresolvable frame and returned the frame after it
C13_Witness ==
    \E k \in 1..(Len(log) - 1) : \E i \in 1..(Len(sent) - 1) :
        /\ AtUnresolvable(k, i) /\ log[k].out = "continue"
        /\ Delivered(k + 1, i + 1) /\ log[k + 1].call = log[k].call

\* C13 as stated: every frame whose address does not resolve is discarded and
\* the loop goes on; no error is returned on account of such a frame.
C13_Original ==
    \A k \in 1..Len(log) : \A i \in 1..Len(sent) :
        AtUnresolvable(k, i) => log[k].out = "continue" /\ log[k].err = ""

\* a ReadFrom in its loop on a stream that has ended can take its next step
NotStuck ==
    (rd.pc = "loop" /\ rclosed)
    => ReadFromIter(rstream, rd.at, rclosed, rd.p).out # "block"

\* a call on an ended stream is never stuck, and every pass that went on to
\* another has consumed the 4 + addrLen +
\* payloadLen bytes of the frame whose header stood at its start
C14_Consumed ==
    /\ NotStuck
    /\ \A k \in 1..Len(log) :
           log[k].out = "continue"
           => LET s == log[k].start
              IN  /\ Len(rstream) >= s + 4
                  /\ log[k].end = s + 4 + Uint16(SubSeq(rstream, s + 1, s + 2))
                                      + Uint16(SubSeq(rstream, s + 3, s + 4))
                  /\ log[k].end <= Len(rstream)

\* C14: every pass of the loop of ReadFrom that goes on to another pass has
\* consumed exactly one whole frame, and once the stream has ended (after
\* finitely many frames) every ReadFrom call returns.
C14_Terminates ==
    /\ []C14_Consumed
    /\ (rd.pc = "loop" /\ rclosed) ~> (rd.pc = "done")

\* a call that discarded two frames and returned at the end of the stream
C14_Witness ==
    /\ rclosed /\ rd.pc = "done" /\ rd.skipped = 2 /\ rd.err = "EOF"
    /\ rpos = Len(rstream)

\* what pass k does at frame i, whose address bytes do not decode: it returns
\* the decode error with 0 and no address, the buffer untouched; ReadDatagram
\* has consumed the 4 header bytes and the addrLen address bytes and no
\* payload byte; the call is over and the next read starts there
DecodeFailed(k, i) ==
    /\ log[k].out = "return" /\ log[k].err \in DecodeErrors
    /\ log[k].n = 0 /\ log[k].addr = UDPNil
    /\ log[k].p = NewBuf(log[k].buflen)
    /\ log[k].end = log[k].start + 4
                    + Uint16(SubSeq(rstream, log[k].start + 1, log[k].start + 2))
    /\ log[k].end = sent[i].end - Len(sent[i].payload)
    /\ k < Len(log) => /\ log[k + 1].start = log[k].end
                       /\ log[k + 1].call > log[k].call
    /\ k = Len(log) => rd.at = log[k].end
    /\ log[k].call = rd.calls
           => rd.pc = "done" /\ rd.err = log[k].err /\ rpos = log[k].end

\* pass k read frame i, whose address bytes do not decode
AtUndecodable(k, i) ==
    /\ log[k].start = sent[i].start /\ sent[i].kind = "undecodable"
    /\ ReadThrough(k)

\* C17 as amended: when the address bytes of a frame do not decode, the pass
\* of ReadFrom that reads it returns the decode error with 0 and no address:
\* the frame is not skipped; ReadDatagram has consumed the 4 header bytes and
\* the addrLen address bytes and no payload byte.  When the frame has payload
\* bytes (payloadLen > 0) the stream is left at the first of them, inside the
\* frame; when it has none (payloadLen = 0) the stream is left at the end of
\* the frame, and a frame that follows is read from its first byte.
C17_DecodeFailure ==
    \A k \in 1..Len(log) : \A i \in 1..Len(sent) :
        AtUndecodable(k, i)
        => /\ DecodeFailed(k, i)
           /\ sent[i].payload # <<>> => log[k].end < sent[i].end
           /\ sent[i].payload = <<>> =>
                  /\ log[k].end = sent[i].end
                  /\ (k < Len(log) /\ i < Len(sent))
                         => log[k + 1].start = sent[i + 1].start

\* C17 as stated: whatever the payload length of the frame, the stream is left
\* inside the frame, not at a frame boundary.
C17_Original ==
    \A k \in 1..Len(log) : \A i \in 1..Len(sent) :
        AtUndecodable(k, i)
        => DecodeFailed(k, i) /\ log[k].end < sent[i].end

\* a call failed on an address cut short, and the next call began at the
\* payload byte of that frame
C17_Witness ==
    \E k \in 1..(Len(log) - 1) : \E i \in 1..Len(sent) :
        /\ log[k].start = sent[i].start /\ sent[i].kind = "undecodable"
        /\ log[k].err = "decode address: unexpected EOF"
        /\ log[k + 1].start = sent[i].end - 1

\* a call failed on the address of a frame without payload, and the next call
\* returned the frame that followed it
C17_WitnessEmpty ==
    \E k \in 1..(Len(log) - 1) : \E i \in 1..(Len(sent) - 1) :
        /\ AtUndecodable(k, i) /\ sent[i].payload = <<>>
        /\ log[k].err = "decode address: unknown address type"
        /\ sent[i + 1].kind = "resolves" /\ Delivered(k + 1, i + 1)
        /\ log[k + 1].start = sent[i + 1].start

(***************************************************************************)
(* Properties of RuleWrapper (SpecRule).                                   *)
(***************************************************************************)
\* the step is goroutine g beginning a call of op
Begins(g, op) == gr'[g].nth = gr[g].nth + 1 /\ gr'[g].op = op

\* a Match that begins on a disabled wrapper returns (false, "") in that step
\* and changes no field and calls no rule; a SetDisabled changes disabled only
C19_Step ==
    \A g \in Callers :
        /\ (Begins(g, "Match") /\ rw.disabled)
              => /\ gr'[g].pc = "idle" /\ gr'[g].ret = [ok |-> FALSE, adapter |-> ""]
                 /\ rw' = rw
                 /\ tally'.ruleCalls = tally.ruleCalls
        /\ Begins(g, "SetDisabled")
              => /\ rw'.hitCount = rw.hitCount /\ rw'.hitAt = rw.hitAt
                 /\ rw'.missCount = rw.missCount /\ rw'.missAt = rw.missAt
                 /\ tally'.ruleCalls = tally.ruleCalls

\* C19: RuleWrapper.Match on a wrapper observed as disabled returns (false, "")
\* without calling the wrapped rule's Match and leaves hitCount, hitAt,
\* missCount and missAt unchanged; SetDisabled changes only the disabled flag.
C19_DisabledMatch == [][C19_Step]_vars

\* a Match has returned from a disabled wrapper whose counters and times were
\* set before, while another goroutine is inside a call
C19_Witness ==
    \E g \in Callers, h \in Callers :
        /\ gr[g].pc = "idle" /\ gr[g].op = "Match" /\ gr[g].seen
        /\ gr[g].ret = [ok |-> FALSE, adapter |-> ""]
        /\ rw.disabled /\ rw.hitCount = 2 /\ rw.hitAt > 0
        /\ gr[h].pc = "hitStore"
        /\ tally.ruleCalls = 0

\* no goroutine is inside a call
Quiet == \A g \in Callers : gr[g].pc = "idle"

\* the goroutines that have begun Hit (Miss) and not yet done its Add
Pending(pc) == Cardinality({g \in Callers : gr[g].pc = pc})

\* the counters count the Adds done; when all calls have returned they are the
\* numbers of matching and of not matching Match calls that passed the check,
\* plus the direct Hit and Miss calls; a Match that passed the check and has
\* returned has raised one counter by 1 and the other not at all
C20_Counts ==
    /\ rw.hitCount = tally.matched + tally.hit - Pending("hit")
    /\ rw.missCount = tally.unmatched + tally.miss - Pending("miss")
    /\ tally.ruleCalls = tally.matched + tally.unmatched
    /\ tally.passed = tally.ruleCalls + Pending("rule")
    /\ Quiet => /\ rw.hitCount = tally.matched + tally.hit
                /\ rw.missCount = tally.unmatched + tally.miss
                /\ rw.hitCount + rw.missCount = tally.passed + tally.hit + tally.miss
    /\ \A g \in Callers :
           (gr[g].pc = "idle" /\ gr[g].op = "Match" /\ ~gr[g].seen)
               => /\ gr[g].hits = (IF gr[g].ret.ok THEN 1 ELSE 0)
                  /\ gr[g].misses = (IF gr[g].ret.ok THEN 0 ELSE 1)

\* no step lowers a counter
C20_Step == rw'.hitCount >= rw.hitCount /\ rw'.missCount >= rw.missCount

\* C20: under any interleaving of concurrent Match, Hit, Miss and SetDisabled
\* calls, hitCount and missCount never decrease and no increment is lost: once
\* all calls have returned, hitCount is the number of Match calls that passed
\* the disabled check and matched plus the direct Hit calls, missCount the
\* number that passed and did not match plus the direct Miss calls, and each
\* such Match has raised exactly one of the two counters by exactly 1.
C20_NoLostIncrement == []C20_Counts /\ [][C20_Step]_vars

\* all calls have returned; goroutines were inside Hit or Miss together; both
\* counters were raised, hitCount by a Match and by a direct Hit
C20_Witness ==
    /\ Quiet /\ tally.overlap
    /\ tally.calls = MaxCalls
    /\ rw.hitCount >= 2 /\ rw.missCount >= 1
    /\ tally.matched >= 1 /\ tally.hit >= 1
=============================================================================
